---- MODULE Spec2Model ----
(***************************************************************************)
(* A model of the parsing layer of ios-sys: the Objective-C type-encoding  *)
(* parser (frameworks/type_encoding.rs), the class_dump parser             *)
(* (frameworks/objc_codegen.rs) and the TBD stub parser                    *)
(* (frameworks/tbd.rs).                                                    *)
(*                                                                         *)
(* Strings are modelled as Rust holds them: sequences of UTF-8 bytes.  An  *)
(* ASCII byte is written as the one-character string of its character; the *)
(* two bytes of the non-ASCII character U+00E9 are written "C3" and "A9".  *)
(* Lengths and slice offsets are byte offsets, chars() walks characters.   *)
(***************************************************************************)
EXTENDS Integers, Sequences, FiniteSets, TLC

VARIABLES
    te_encoding,    \* parse_type_encoding: the argument `encoding`
    te_result,      \* parse_type_encoding: the returned (ObjCType, usize)
    encoding,       \* parse_method_encoding: the argument `encoding`
    clean,          \* parse_method_encoding: `clean`
    types,          \* parse_method_encoding: `types`
    pos,            \* parse_method_encoding: `pos`
    pc,             \* parse_method_encoding: position in the function body
    result,         \* parse_method_encoding: the returned Option<MethodSignature>
    rt_self,        \* to_rust_type: the ObjCType `self`
    rt_out,         \* to_rust_type: the returned String, None before the call
    lines,          \* parse_class_dump: the lines of dump_content read so far
    classes,        \* parse_class_dump: `classes`
    current_class,  \* parse_class_dump: `current_class`
    in_methods,     \* parse_class_dump: `in_methods`
    in_properties,  \* parse_class_dump: `in_properties`
    dump_pc,        \* parse_class_dump: in the loop, or returned
    content,        \* parse_tbd_file: the document read from `path`
    info,           \* parse_tbd_file: `info`
    exports,        \* parse_tbd_file: the export stanzas the for loop has left
    tbd_pc,         \* parse_tbd_file: position in the function body
    tbd_result,     \* parse_tbd_file: the returned Option<TbdInfo>
    self_symbols,   \* TbdInfo: `self.symbols`
    c_functions,    \* get_c_functions: the returned Vec<String>, None before the call
    constants,      \* get_constants: the returned Vec<String>, None before the call
    gen_classes,    \* generate_rust_bindings: the argument `classes`
    output,         \* generate_rust_bindings: `output`, as the blocks written so far
    class_idx,      \* generate_rust_bindings: index of the class the for loop is at
    method_idx,     \* generate_class_bindings: index of the method the for loop is at
    method_names,   \* generate_class_bindings: `method_names`
    gen_pc,         \* generate_rust_bindings: position in the function body
    returned,       \* generate_rust_bindings: the calls completed so far, each with its
                    \* argument and the String it returned
    selector,       \* sanitize_selector: the argument `selector`
    san_result      \* sanitize_selector: the returned String, None before the call

typeVars == <<te_encoding, te_result>>
encVars == <<encoding, clean, types, pos, pc, result>>
renderVars == <<rt_self, rt_out>>
dumpVars == <<lines, classes, current_class, in_methods, in_properties, dump_pc>>
tbdVars == <<content, info, exports, tbd_pc, tbd_result>>
symVars == <<self_symbols, c_functions, constants>>
genVars == <<gen_classes, output, class_idx, method_idx, method_names, gen_pc, returned>>
sanVars == <<selector, san_result>>
vars == <<typeVars, encVars, renderVars, dumpVars, tbdVars, symVars, genVars, sanVars>>

----------------------------------------------------------------------------
(* Bounds of the model.                                                    *)

\* longest tail that follows the first character of a parse_type_encoding input
MaxRest == 3
\* longest run of filler bytes put after an opening brace
MaxFill == 9
\* longest enumerated parse_method_encoding input, in characters
MaxEncLen == 3
\* longest enumerated struct name given to to_rust_type
MaxNameLen == 2
\* deepest nesting of Pointer given to to_rust_type
MaxPtrDepth == 2
\* most lines of a dump
MaxLines == 4
\* longest enumerated `symbols` list of a stanza
MaxList == 1
\* most export stanzas of an enumerated document
MaxStanzas == 2

----------------------------------------------------------------------------
(* Each specification runs one function; the state of the others is idle.  *)

TypeIdle == te_encoding = <<>> /\ te_result = [kind |-> "None"]

EncIdle ==
    /\ encoding = <<>>
    /\ clean = <<>>
    /\ types = <<>>
    /\ pos = 0
    /\ pc = "idle"
    /\ result = [kind |-> "None"]

RenderIdle == rt_self = [kind |-> "None"] /\ rt_out = [kind |-> "None"]

DumpIdle ==
    /\ lines = <<>>
    /\ classes = <<>>
    /\ current_class = [kind |-> "None"]
    /\ in_methods = FALSE
    /\ in_properties = FALSE
    /\ dump_pc = "idle"

TbdIdle ==
    /\ content = [kind |-> "None"]
    /\ info = [kind |-> "None"]
    /\ exports = <<>>
    /\ tbd_pc = "idle"
    /\ tbd_result = [kind |-> "None"]

SymIdle ==
    /\ self_symbols = <<>>
    /\ c_functions = [kind |-> "None"]
    /\ constants = [kind |-> "None"]

GenIdle ==
    /\ gen_classes = <<>>
    /\ output = <<>>
    /\ class_idx = 0
    /\ method_idx = 0
    /\ method_names = <<>>
    /\ gen_pc = "idle"
    /\ returned = <<>>

SanIdle == selector = <<>> /\ san_result = [kind |-> "None"]

----------------------------------------------------------------------------
(* Rust string primitives over byte sequences.                             *)

\* the bytes of the one non-ASCII character of the model, U+00E9
EAcute == <<"C3", "A9">>

\* a UTF-8 continuation byte (never the start of a character)
IsContinuation(b) == b = "A9"

\* number of bytes of the character whose first byte is b
CharWidth(b) == IF b = "C3" THEN 2 ELSE 1

\* str::is_char_boundary for a 0-based byte index i
IsCharBoundary(s, i) ==
    \/ i = 0
    \/ i = Len(s)
    \/ i > 0 /\ i < Len(s) /\ ~IsContinuation(s[i + 1])

\* str::chars(): the characters of s, each as its byte sequence
RECURSIVE Chars(_)
Chars(s) ==
    IF s = <<>> THEN <<>>
    ELSE LET w == CharWidth(s[1])
         IN  <<SubSeq(s, 1, w)>> \o Chars(SubSeq(s, w + 1, Len(s)))

\* the value of an absent Option
None == [kind |-> "None"]

\* Some(value)
Some(value) == [kind |-> "Some", value |-> value]

\* s.chars().nth(n) for a 0-based n: the character, or None
CharsNth(s, n) ==
    LET cs == Chars(s)
    IN  IF n < Len(cs) THEN [kind |-> "Some", ch |-> cs[n + 1]] ELSE None

\* IsAsciiDigit that takes '1'..'9' only
IsAsciiDigitNoZero(ch) ==
    ch \in {<<"1">>, <<"2">>, <<"3">>, <<"4">>, <<"5">>, <<"6">>, <<"7">>, <<"8">>, <<"9">>}

\* char::is_ascii_digit
IsAsciiDigit(ch) ==
    ch \in {<<"0">>, <<"1">>, <<"2">>, <<"3">>, <<"4">>,
            <<"5">>, <<"6">>, <<"7">>, <<"8">>, <<"9">>}

\* the one-byte characters with the Unicode White_Space property: space, tab,
\* line feed, carriage return, form feed and U+000B (written "0B"); the
\* other White_Space characters are longer than one byte and are not among
\* the characters of the model
WhiteSpace == {" ", "\t", "\n", "\r", "\f", "0B"}

\* char::is_whitespace, on the first byte of a character
IsWhitespace(b) == b \in WhiteSpace

\* &s[from..] for a 0-based byte offset that is a character boundary
SliceFrom(s, from) == SubSeq(s, from + 1, Len(s))

\* &s[..to] for a 0-based byte offset that is a character boundary
SliceTo(s, to) == SubSeq(s, 1, to)

\* &s[from..to]
Slice(s, from, to) == SubSeq(s, from + 1, to)

\* str::find(c) for an ASCII character c: the 0-based byte offset of its
\* first occurrence, or -1 for None
Find(s, c) ==
    IF \E i \in 1..Len(s) : s[i] = c
    THEN (CHOOSE i \in 1..Len(s) : s[i] = c /\ \A j \in 1..(i - 1) : s[j] # c) - 1
    ELSE -1

\* str::starts_with(prefix)
StartsWith(s, prefix) ==
    Len(prefix) <= Len(s) /\ SubSeq(s, 1, Len(prefix)) = prefix

\* str::ends_with(suffix)
EndsWith(s, suffix) ==
    Len(suffix) <= Len(s) /\ SubSeq(s, Len(s) - Len(suffix) + 1, Len(s)) = suffix

\* str::contains(needle)
Contains(s, needle) ==
    \E i \in 0..(Len(s) - Len(needle)) : SubSeq(s, i + 1, i + Len(needle)) = needle

\* str::trim_start_matches over a set of one-byte characters
RECURSIVE TrimStartMatches(_, _)
TrimStartMatches(s, set) ==
    IF s # <<>> /\ s[1] \in set THEN TrimStartMatches(Tail(s), set) ELSE s

\* str::trim_end_matches over a set of one-byte characters
RECURSIVE TrimEndMatches(_, _)
TrimEndMatches(s, set) ==
    IF s # <<>> /\ s[Len(s)] \in set
    THEN TrimEndMatches(SubSeq(s, 1, Len(s) - 1), set)
    ELSE s

\* str::trim_matches over a set of one-byte characters
TrimMatches(s, set) == TrimEndMatches(TrimStartMatches(s, set), set)

\* str::trim()
Trim(s) == TrimMatches(s, WhiteSpace)

\* usize::min
Min(a, b) == IF a <= b THEN a ELSE b

----------------------------------------------------------------------------
(* enum ObjCType and parse_type_encoding.                                  *)

Void == [kind |-> "Void"]
Bool == [kind |-> "Bool"]
Char == [kind |-> "Char"]
UnsignedChar == [kind |-> "UnsignedChar"]
Short == [kind |-> "Short"]
UnsignedShort == [kind |-> "UnsignedShort"]
Int_ == [kind |-> "Int"]
UnsignedInt == [kind |-> "UnsignedInt"]
Long == [kind |-> "Long"]
UnsignedLong == [kind |-> "UnsignedLong"]
LongLong == [kind |-> "LongLong"]
UnsignedLongLong == [kind |-> "UnsignedLongLong"]
Float == [kind |-> "Float"]
Double == [kind |-> "Double"]
Id == [kind |-> "Id"]
Class == [kind |-> "Class"]
SEL == [kind |-> "SEL"]
CharPointer == [kind |-> "CharPointer"]
Pointer(inner) == [kind |-> "Pointer", inner |-> inner]
Struct(name) == [kind |-> "Struct", name |-> name]
Unknown(text) == [kind |-> "Unknown", text |-> text]

\* the outcome of a run that panicked (a slice off a character boundary, an
\* unwrap of None): no value is returned
Panic == [kind |-> "Panic"]

\* the cap of the unterminated-struct fallback
UnknownCap == 10

\* the struct arm of parse_type_encoding
ParseStruct(enc) ==
    LET end_pos == Find(enc, "}")
    IN  IF end_pos # -1
        THEN LET struct_encoding == Slice(enc, 1, end_pos)
                 eq_pos == Find(struct_encoding, "=")
                 struct_name == IF eq_pos # -1
                                THEN SliceTo(struct_encoding, eq_pos)
                                ELSE struct_encoding
             IN  [ty |-> Struct(struct_name), consumed |-> end_pos + 1]
        ELSE LET cut == Min(UnknownCap, Len(enc))
             IN  IF IsCharBoundary(enc, cut)
                 THEN [ty |-> Unknown(SliceTo(enc, cut)), consumed |-> 1]
                 ELSE [ty |-> Panic, consumed |-> 0]

\* SingleCharType with the arm of 'l' giving the type of 'q'
SingleCharTypeLongSlip(first_char) ==
    CASE first_char = <<"v">> -> Void
      [] first_char = <<"B">> -> Bool
      [] first_char = <<"c">> -> Char
      [] first_char = <<"C">> -> UnsignedChar
      [] first_char = <<"s">> -> Short
      [] first_char = <<"S">> -> UnsignedShort
      [] first_char = <<"i">> -> Int_
      [] first_char = <<"I">> -> UnsignedInt
      [] first_char = <<"l">> -> LongLong
      [] first_char = <<"L">> -> UnsignedLong
      [] first_char = <<"q">> -> LongLong
      [] first_char = <<"Q">> -> UnsignedLongLong
      [] first_char = <<"f">> -> Float
      [] first_char = <<"d">> -> Double
      [] first_char = <<"@">> -> Id
      [] first_char = <<"#">> -> Class
      [] first_char = <<":">> -> SEL
      [] first_char = <<"*">> -> CharPointer
      [] OTHER -> None

\* the eighteen one-character arms of parse_type_encoding's match; None for
\* any other character
SingleCharType(first_char) ==
    CASE first_char = <<"v">> -> Void
      [] first_char = <<"B">> -> Bool
      [] first_char = <<"c">> -> Char
      [] first_char = <<"C">> -> UnsignedChar
      [] first_char = <<"s">> -> Short
      [] first_char = <<"S">> -> UnsignedShort
      [] first_char = <<"i">> -> Int_
      [] first_char = <<"I">> -> UnsignedInt
      [] first_char = <<"l">> -> Long
      [] first_char = <<"L">> -> UnsignedLong
      [] first_char = <<"q">> -> LongLong
      [] first_char = <<"Q">> -> UnsignedLongLong
      [] first_char = <<"f">> -> Float
      [] first_char = <<"d">> -> Double
      [] first_char = <<"@">> -> Id
      [] first_char = <<"#">> -> Class
      [] first_char = <<":">> -> SEL
      [] first_char = <<"*">> -> CharPointer
      [] OTHER -> None

\* line 130: the pointer to the inner type, one character longer; a panic of
\* the inner call is the panic of this one
WrapPointer(inner) ==
    IF inner.ty = Panic THEN inner
    ELSE [ty |-> Pointer(inner.ty), consumed |-> inner.consumed + 1]

\* parse_type_encoding: (ObjCType, consumed), or ty = Panic
RECURSIVE parse_type_encoding(_)
parse_type_encoding(enc) ==
    IF enc = <<>> THEN [ty |-> Unknown(<<"e", "m", "p", "t", "y">>), consumed |-> 0]
    ELSE LET first_char == Chars(enc)[1]
         IN  CASE SingleCharType(first_char) # None ->
                    [ty |-> SingleCharType(first_char), consumed |-> 1]
               [] first_char = <<"^">> -> WrapPointer(parse_type_encoding(SliceFrom(enc, 1)))
               [] first_char = <<"{">> -> ParseStruct(enc)
               [] OTHER -> [ty |-> Unknown(first_char), consumed |-> 1]

----------------------------------------------------------------------------
(* Inputs.                                                                 *)

\* the concatenation of a sequence of byte sequences
RECURSIVE Flatten(_)
Flatten(ss) == IF ss = <<>> THEN <<>> ELSE Head(ss) \o Flatten(Tail(ss))

\* every string of at most n characters over the characters of alphabet
Strs(alphabet, n) == {Flatten(cs) : cs \in UNION {[1..k -> alphabet] : k \in 0..n}}

\* k filler bytes
RECURSIVE Fill(_)
Fill(k) == IF k = 0 THEN <<>> ELSE <<"a">> \o Fill(k - 1)

\* the one-character type codes
TypeCodes ==
    {<<"v">>, <<"B">>, <<"c">>, <<"C">>, <<"s">>, <<"S">>, <<"i">>, <<"I">>, <<"l">>,
     <<"L">>, <<"q">>, <<"Q">>, <<"f">>, <<"d">>, <<"@">>, <<"#">>, <<":">>, <<"*">>}

\* first characters of the parse_type_encoding inputs
FirstChars == TypeCodes \cup {<<"^">>, <<"{">>, <<"}">>, <<"1">>, <<"?">>, <<"a">>, EAcute}

\* characters of the tail of the parse_type_encoding inputs
RestChars == {<<"v">>, <<"^">>, <<"{">>, <<"}">>, <<"=">>, <<"_">>, <<"1">>, EAcute}

\* characters that follow the filler of an unterminated struct
TailChars == {<<"a">>, <<"=">>, EAcute}

\* encodings quoted by the tests of type_encoding.rs
TypeSamples ==
    { <<"{", "C", "G", "R", "e", "c", "t", "=", "{", "C", "G", "P", "o", "i", "n", "t",
        "=", "d", "d", "}", "{", "C", "G", "S", "i", "z", "e", "=", "d", "d", "}", "}">>,
      <<"^", "{", "_", "_", "C", "F", "S", "t", "r", "i", "n", "g", "=", "}">>,
      <<"^", "v">> }

TypeInputs ==
    {<<>>}
    \cup {f \o r : f \in FirstChars, r \in Strs(RestChars, MaxRest)}
    \cup {<<"{">> \o Fill(k) \o t : k \in 0..MaxFill, t \in Strs(TailChars, 2)}
    \cup {<<"^", "{">> \o Fill(k) \o t : k \in 0..MaxFill, t \in Strs(TailChars, 1)}
    \cup TypeSamples

----------------------------------------------------------------------------
(* Specification SpecType: one call of parse_type_encoding.                *)

InitType ==
    /\ te_encoding \in TypeInputs
    /\ te_result = None
    /\ EncIdle /\ RenderIdle /\ DumpIdle /\ TbdIdle /\ SymIdle /\ GenIdle /\ SanIdle

\* the call parse_type_encoding(te_encoding)
ParseTypeEncoding ==
    /\ te_result = None
    /\ te_result' = parse_type_encoding(te_encoding)
    /\ UNCHANGED <<te_encoding, encVars, renderVars, dumpVars, tbdVars, symVars, genVars, sanVars>>

NextType == ParseTypeEncoding

SpecType == InitType /\ [][NextType]_vars

----------------------------------------------------------------------------
(* Claims about parse_type_encoding, checked under SpecType.               *)

\* the call has returned (or panicked)
TypeDone == te_result # None

\* the table of one-character codes as the specification states it
CodeTable ==
    { <<"v", "Void">>, <<"B", "Bool">>, <<"c", "Char">>, <<"C", "UnsignedChar">>,
      <<"s", "Short">>, <<"S", "UnsignedShort">>, <<"i", "Int">>, <<"I", "UnsignedInt">>,
      <<"l", "Long">>, <<"L", "UnsignedLong">>, <<"q", "LongLong">>,
      <<"Q", "UnsignedLongLong">>, <<"f", "Float">>, <<"d", "Double">>, <<"@", "Id">>,
      <<"#", "Class">>, <<":", "SEL">>, <<"*", "CharPointer">> }

\* C1: an input whose first character is one of the 18 one-character codes
\* decodes to the kind the table gives that character, with consumed length
\* 1, whatever follows.
C1_SingleCodes ==
    (TypeDone /\ te_encoding # <<>>) =>
        \A p \in CodeTable :
            te_encoding[1] = p[1] => te_result = [ty |-> [kind |-> p[2]], consumed |-> 1]

\* C1 witness: '@' followed by further characters has been decoded as Id
C1_Witness ==
    /\ TypeDone
    /\ Len(te_encoding) > 1
    /\ te_encoding[1] = "@"
    /\ te_result.ty = Id

\* nesting depth of braces after the first i bytes of s
RECURSIVE Depth(_, _)
Depth(s, i) ==
    IF i = 0 THEN 0
    ELSE Depth(s, i - 1) + (IF s[i] = "{" THEN 1 ELSE IF s[i] = "}" THEN -1 ELSE 0)

\* the braces of s are balanced
Balanced(s) == Depth(s, Len(s)) = 0 /\ \A i \in 1..Len(s) : Depth(s, i) >= 0

\* 1-based position of the brace that closes the brace at s[1]
MatchingClose(s) == CHOOSE i \in 1..Len(s) : Depth(s, i) = 0 /\ \A j \in 1..(i - 1) : Depth(s, j) > 0

\* the tag name of the aggregate that opens at s[1]: the text between the
\* opening brace and the first '=' of the interior, or the whole interior
TagName(s) ==
    LET interior == SubSeq(s, 2, MatchingClose(s) - 1)
    IN  IF \E i \in 1..Len(interior) : interior[i] = "="
        THEN SubSeq(interior, 1,
                    (CHOOSE i \in 1..Len(interior) :
                        interior[i] = "=" /\ \A j \in 1..(i - 1) : interior[j] # "=") - 1)
        ELSE interior

\* C3: an input that starts with '{' and has balanced braces decodes to
\* Struct of its tag name, and the consumed length runs through the brace
\* that matches the opening brace.
C3_MatchingBrace ==
    (TypeDone /\ te_encoding # <<>> /\ te_encoding[1] = "{" /\ Balanced(te_encoding)) =>
        te_result = [ty |-> Struct(TagName(te_encoding)),
                     consumed |-> MatchingClose(te_encoding)]

\* the first n characters of s
FirstCharacters(s, n) == Flatten(SubSeq(Chars(s), 1, n))

\* C4: an input that starts with '{' and has no '}' decodes to Unknown of
\* its first min(10, length) characters, with consumed length 1.
C4_UnterminatedCap ==
    (TypeDone /\ te_encoding # <<>> /\ te_encoding[1] = "{"
        /\ \A i \in 1..Len(te_encoding) : te_encoding[i] # "}") =>
        te_result = [ty |-> Unknown(FirstCharacters(te_encoding,
                                                    Min(10, Len(Chars(te_encoding))))),
                     consumed |-> 1]

----------------------------------------------------------------------------
(* parse_method_encoding, one action per step of its body.                 *)

\* characters of the enumerated parse_method_encoding inputs
EncChars ==
    {<<"v">>, <<"@">>, <<":">>, <<"1">>, <<"[">>, <<"]">>, <<" ">>,
     <<"{">>, <<"}">>, <<"^">>, EAcute}

\* encodings quoted by the tests and comments of the repository, and two of
\* them with a form feed before and a U+000B after
EncSamples ==
    { <<"v", "1", "6", "@", "0", ":", "8">>,
      <<"B", "2", "4", "@", "0", ":", "8", "#", "1", "6">>,
      <<"[", "v", "1", "6", "@", "0", ":", "8", "]">>,
      <<"@", "2", "4", "@", "0", ":", "8", "@", "1", "6">>,
      <<"\f", "v", "1", "6", "@", "0", ":", "8">>,
      <<"v", "1", "6", "@", "0", ":", "8", "0B">> }

EncInputs == Strs(EncChars, MaxEncLen) \cup EncSamples

InitEnc ==
    /\ encoding \in EncInputs
    /\ clean = <<>>
    /\ types = <<>>
    /\ pos = 0
    /\ pc = "start"
    /\ result = None
    /\ TypeIdle /\ RenderIdle /\ DumpIdle /\ TbdIdle /\ SymIdle /\ GenIdle /\ SanIdle

\* Some(MethodSignature { return_type, arg_types })
SomeSignature(return_type, arg_types) ==
    [kind |-> "Some", return_type |-> return_type, arg_types |-> arg_types]

\* the inner while loop: the position after the run of digits that starts at
\* p, or -1 when chars().nth(p).unwrap() panics on the way
RECURSIVE DigitRunEnd(_, _)
DigitRunEnd(s, p) ==
    IF p < Len(s)
    THEN IF CharsNth(s, p) = None THEN -1
         ELSE IF IsAsciiDigit(CharsNth(s, p).ch) THEN DigitRunEnd(s, p + 1)
         ELSE p
    ELSE p

\* lines 160-164: strip whitespace and brackets, return None when empty
CleanInput ==
    /\ pc = "start"
    /\ clean' = TrimMatches(Trim(encoding), {"[", "]"})
    /\ pc' = IF clean' = <<>> THEN "done" ELSE "loop"
    /\ result' = None
    /\ UNCHANGED <<encoding, types, pos, typeVars, renderVars, dumpVars, tbdVars, symVars, genVars, sanVars>>

\* line 171: clean.chars().nth(pos) is None, the unwrap panics
UnwrapPanic ==
    /\ pc = "loop"
    /\ pos < Len(clean)
    /\ CharsNth(clean, pos) = None
    /\ pc' = "done"
    /\ result' = Panic
    /\ UNCHANGED <<encoding, clean, types, pos, typeVars, renderVars, dumpVars, tbdVars, symVars, genVars, sanVars>>

\* lines 174-179: skip a run of digits
SkipNumbers ==
    /\ pc = "loop"
    /\ pos < Len(clean)
    /\ CharsNth(clean, pos) # None
    /\ IsAsciiDigit(CharsNth(clean, pos).ch)
    /\ LET e == DigitRunEnd(clean, pos)
       IN  IF e = -1
           THEN pc' = "done" /\ result' = Panic /\ pos' = pos
           ELSE pc' = "loop" /\ result' = result /\ pos' = e
    /\ UNCHANGED <<encoding, clean, types, typeVars, renderVars, dumpVars, tbdVars, symVars, genVars, sanVars>>

\* lines 182-184: decode one type at pos and advance by its consumed length
ParseType ==
    /\ pc = "loop"
    /\ pos < Len(clean)
    /\ CharsNth(clean, pos) # None
    /\ ~IsAsciiDigit(CharsNth(clean, pos).ch)
    /\ IF ~IsCharBoundary(clean, pos)
       THEN pc' = "done" /\ result' = Panic /\ UNCHANGED <<types, pos>>
       ELSE LET r == parse_type_encoding(SliceFrom(clean, pos))
            IN  IF r.ty = Panic
                THEN pc' = "done" /\ result' = Panic /\ UNCHANGED <<types, pos>>
                ELSE /\ types' = Append(types, r.ty)
                     /\ pos' = pos + r.consumed
                     /\ UNCHANGED <<pc, result>>
    /\ UNCHANGED <<encoding, clean, typeVars, renderVars, dumpVars, tbdVars, symVars, genVars, sanVars>>

\* lines 187-199: the loop has ended; None without types, else the signature
Finish ==
    /\ pc = "loop"
    /\ pos >= Len(clean)
    /\ pc' = "done"
    /\ result' = IF types = <<>> THEN None
                 ELSE SomeSignature(types[1], Tail(types))
    /\ UNCHANGED <<encoding, clean, types, pos, typeVars, renderVars, dumpVars, tbdVars, symVars, genVars, sanVars>>

NextEnc ==
    \/ CleanInput
    \/ UnwrapPanic
    \/ SkipNumbers
    \/ ParseType
    \/ Finish

SpecEnc == InitEnc /\ [][NextEnc]_vars

----------------------------------------------------------------------------
(* Claims about parse_method_encoding, checked under SpecEnc.              *)

\* the kind the table of one-character codes gives the byte c
KindOf(c) == (CHOOSE p \in CodeTable : p[1] = c)[2]

IsCode(c) == \E p \in CodeTable : p[1] = c

IsDigitByte(c) == c \in {"0", "1", "2", "3", "4", "5", "6", "7", "8", "9"}

\* s is made of one-character codes, each optionally followed by digits
IsCodeSignature(s) ==
    /\ s # <<>>
    /\ IsCode(s[1])
    /\ \A i \in 1..Len(s) : IsCode(s[i]) \/ IsDigitByte(s[i])

\* the kinds of the codes of s, in order, digits left out
CodeKinds(s) ==
    LET codes == SelectSeq(s, IsCode)
    IN  [i \in 1..Len(codes) |-> [kind |-> KindOf(codes[i])]]

\* C2: a signature of one-character codes with optional digit runs decodes
\* to the kind of its first code as return type and the kinds of the other
\* codes, in order, as argument types; digits contribute nothing.
C2_CodesAndOffsets ==
    (pc = "done" /\ IsCodeSignature(encoding)) =>
        result = SomeSignature(Head(CodeKinds(encoding)), Tail(CodeKinds(encoding)))

\* C2 witness: "v16@0:8" has been decoded to void (id, SEL)
C2_Witness ==
    /\ pc = "done"
    /\ encoding = <<"v", "1", "6", "@", "0", ":", "8">>
    /\ result = SomeSignature(Void, <<Id, SEL>>)

\* C5: the call returns None exactly when the cleaned input is empty or no
\* type was decoded, and otherwise Some signature made of the first decoded
\* type and the later ones in order.
C5_NoneOrSignature ==
    pc = "done" =>
        IF clean = <<>> \/ types = <<>>
        THEN result = None
        ELSE result = SomeSignature(types[1], Tail(types))

----------------------------------------------------------------------------
(* ObjCType::to_rust_type.                                                 *)

\* the text "c_void"
CVoid == <<"c", "_", "v", "o", "i", "d">>

\* the text "*mut c_void"
MutCVoid == <<"*", "m", "u", "t", " ", "c", "_", "v", "o", "i", "d">>

\* the rendering of the eighteen kinds without payload
PrimitiveText(kind) ==
    CASE kind = "Void" -> <<"(", ")">>
      [] kind = "Bool" -> <<"b", "o", "o", "l">>
      [] kind = "Char" -> <<"i", "8">>
      [] kind = "UnsignedChar" -> <<"u", "8">>
      [] kind = "Short" -> <<"i", "1", "6">>
      [] kind = "UnsignedShort" -> <<"u", "1", "6">>
      [] kind = "Int" -> <<"i", "3", "2">>
      [] kind = "UnsignedInt" -> <<"u", "3", "2">>
      [] kind = "Long" -> <<"i", "s", "i", "z", "e">>
      [] kind = "UnsignedLong" -> <<"u", "s", "i", "z", "e">>
      [] kind = "LongLong" -> <<"i", "6", "4">>
      [] kind = "UnsignedLongLong" -> <<"u", "6", "4">>
      [] kind = "Float" -> <<"f", "3", "2">>
      [] kind = "Double" -> <<"f", "6", "4">>
      [] kind = "Id" -> <<"i", "d">>
      [] kind = "Class" -> <<"C", "l", "a", "s", "s">>
      [] kind = "SEL" -> <<"S", "E", "L">>
      [] kind = "CharPointer" -> <<"*", "c", "o", "n", "s", "t", " ", "i", "8">>

\* the prefixes of struct names that are mapped to c_void (lines 71-75)
OpaquePrefixes ==
    { <<"C", "F">>, <<"C", "G">>, <<"S", "e", "c">>, <<"n", "w", "_">>,
      <<"x", "p", "c", "_">>, <<"H", "T", "T", "P">>, <<"U", "R", "L">>, <<"I", "O">>,
      <<"d", "i", "s", "p", "a", "t", "c", "h", "_">>, <<"o", "s", "_">> }

\* the struct names that are mapped to c_void (lines 81-90)
OpaqueNames ==
    { <<"s", "t", "a", "t">>, <<"t", "i", "m", "e", "s", "p", "e", "c">>,
      <<"t", "i", "m", "e", "v", "a", "l">>,
      <<"a", "d", "d", "r", "i", "n", "f", "o">>,
      <<"s", "o", "c", "k", "a", "d", "d", "r">>,
      <<"s", "o", "c", "k", "a", "d", "d", "r", "_", "i", "n">>,
      <<"s", "o", "c", "k", "a", "d", "d", "r", "_", "i", "n", "6">>,
      <<"p", "a", "s", "s", "w", "d">>, <<"g", "r", "o", "u", "p">>,
      <<"f", "t", "s", "e", "n", "t">>, <<"s", "q", "l", "i", "t", "e", "3">>,
      <<"s", "q", "l", "i", "t", "e", "3", "_", "s", "t", "m", "t">>,
      <<"A", "t", "t", "r", "i", "b", "u", "t", "e">>,
      <<"A", "t", "t", "r", "i", "b", "u", "t", "e", "_", "v", "a", "l", "u", "e">>,
      <<"I", "s", "s", "u", "e", "r", "A", "n", "d", "S", "e", "r", "i", "a", "l", "N", "u", "m", "b", "e", "r">>,
      <<"A", "l", "g", "o", "r", "i", "t", "h", "m", "I", "d", "e", "n", "t", "i", "f", "i", "e", "r">>,
      <<"h", "e", "i", "m", "_", "i", "n", "t", "e", "g", "e", "r">>,
      <<"h", "e", "i", "m", "_", "o", "i", "d">>,
      <<"N", "S", "L", "T", "T", "o", "k", "e", "n">>,
      <<"N", "S", "R", "e", "f", "C", "o", "u", "n", "t", "e", "d", "R", "u", "n", "A", "r", "r", "a", "y">>,
      <<"N", "S", "R", "u", "n", "A", "r", "r", "a", "y", "I", "t", "e", "m">>,
      <<"N", "S", "M", "e", "t", "h", "o", "d", "F", "r", "a", "m", "e", "A", "r", "g", "I", "n", "f", "o">>,
      <<"I", "n", "t", "e", "r", "n", "a", "l", "I", "n", "i", "t">>,
      <<"a", "u", "d", "i", "t", "_", "t", "o", "k", "e", "n", "_", "t">> }

\* the guard of lines 56 and 62: the name starts with '?' or is empty
IsAnonymous(name) == StartsWith(name, <<"?">>) \/ name = <<>>

\* the Struct arm of to_rust_type
StructText(name) ==
    IF IsAnonymous(name) THEN CVoid
    ELSE LET clean_name == TrimStartMatches(name, {"_"})
         IN  IF \/ \E p \in OpaquePrefixes : StartsWith(clean_name, p)
                \/ Contains(clean_name, <<"C", "o", "o", "k", "i", "e">>)
             THEN CVoid
             ELSE IF clean_name \in OpaqueNames THEN CVoid
             ELSE clean_name

\* ObjCType::to_rust_type
RECURSIVE to_rust_type(_)
to_rust_type(self) ==
    CASE self.kind = "Pointer" ->
            IF self.inner.kind = "Unknown" THEN MutCVoid
            ELSE IF self.inner.kind = "Struct" /\ IsAnonymous(self.inner.name) THEN MutCVoid
            ELSE <<"*", "m", "u", "t", " ">> \o to_rust_type(self.inner)
      [] self.kind = "Struct" -> StructText(self.name)
      [] self.kind = "Unknown" ->
            <<"/", "*", " ">> \o self.text \o <<" ", "*", "/", " ">> \o CVoid
      [] OTHER -> PrimitiveText(self.kind)

\* struct names given to to_rust_type
StructNames ==
    Strs({<<"_">>, <<"?">>, <<"x">>}, MaxNameLen)
    \cup { <<"C", "G", "R", "e", "c", "t">>,
      <<"_", "_", "C", "F", "S", "t", "r", "i", "n", "g">>,
      <<"_", "N", "S", "R", "a", "n", "g", "e">>,
      <<"M", "y", "C", "u", "s", "t", "o", "m", "S", "t", "r", "u", "c", "t">>,
      <<"S", "e", "c", "K", "e", "y">>, <<"_", "s", "t", "a", "t">>,
      <<"N", "S", "H", "T", "T", "P", "C", "o", "o", "k", "i", "e">>,
      <<"s", "q", "l", "i", "t", "e", "3">> }

\* fragments held by Unknown
UnknownTexts ==
    { <<>>, <<"e", "m", "p", "t", "y">>, <<"1">>, <<"}">>, EAcute,
      <<"{", "a", "a", "a", "a", "a", "a", "a", "a", "a">> }

\* the types without a pointee
LeafTypes ==
    {[kind |-> p[2]] : p \in CodeTable}
    \cup {Struct(n) : n \in StructNames}
    \cup {Unknown(t) : t \in UnknownTexts}

\* the types with at most d levels of Pointer
RECURSIVE TypesOfDepth(_)
TypesOfDepth(d) ==
    IF d = 0 THEN LeafTypes
    ELSE TypesOfDepth(d - 1) \cup {Pointer(t) : t \in TypesOfDepth(d - 1)}

InitRender ==
    /\ rt_self \in TypesOfDepth(MaxPtrDepth)
    /\ rt_out = None
    /\ TypeIdle /\ EncIdle /\ DumpIdle /\ TbdIdle /\ SymIdle /\ GenIdle /\ SanIdle

\* the call rt_self.to_rust_type()
Render ==
    /\ rt_out = None
    /\ rt_out' = Some(to_rust_type(rt_self))
    /\ UNCHANGED <<rt_self, typeVars, encVars, dumpVars, tbdVars, symVars, genVars, sanVars>>

NextRender == Render

SpecRender == InitRender /\ [][NextRender]_vars

\* C6: every type renders as a non-empty token; a Struct whose name is empty
\* or starts with '?' renders as c_void, and as *mut c_void behind a pointer.
C6_NonEmptyToken ==
    rt_out # None =>
        /\ rt_out.value # <<>>
        /\ (rt_self.kind = "Struct" /\ (rt_self.name = <<>> \/ rt_self.name[1] = "?"))
                => rt_out.value = <<"c", "_", "v", "o", "i", "d">>
        /\ (/\ rt_self.kind = "Pointer"
            /\ rt_self.inner.kind = "Struct"
            /\ (rt_self.inner.name = <<>> \/ rt_self.inner.name[1] = "?"))
                => rt_out.value = <<"*", "m", "u", "t", " ", "c", "_", "v", "o", "i", "d">>

----------------------------------------------------------------------------
(* parse_class_dump, one action per arm of the loop body.                  *)

\* the lines a dump is made of
DumpLines ==
    { <<"@", "i", "n", "t", "e", "r", "f", "a", "c", "e", " ", "F", "o", "o">>,
      <<" ", " ", "@", "i", "n", "t", "e", "r", "f", "a", "c", "e", " ", "Q", "u", "x", " ">>,
      <<"S", "u", "p", "e", "r", "c", "l", "a", "s", "s", ":", " ", "B", "a", "r">>,
      <<"M", "e", "t", "h", "o", "d", "s", " ", "(", "1", ")", ":">>,
      <<"P", "r", "o", "p", "e", "r", "t", "i", "e", "s", " ", "(", "1", ")", ":">>,
      <<"@", "e", "n", "d">>,
      <<"-", " ", "b", "a", "z", " ", "[", "v", "1", "6", "@", "0", ":", "8", "]">>,
      <<"-", " ", "i", "n", "i", "t", ":", "w", "i", "t", "h", ":", " ", "[", "@", "3", "2", "@", "0", ":", "8", "@", "1", "6", "@", "2", "4">>,
      <<"-", " ", "b", "a", "z">>,
      <<"-", " ", "d", "u", "p", " ", " ", "[", " ", "v", " ", "]">>,
      <<"@", "p", "r", "o", "p", "e", "r", "t", "y", " ", "n", "a", "m", "e", " ", "[", "T", "@", ",", "R", "]">>,
      <<"@", "i", "n", "t", "e", "r", "f", "a", "c", "e">> }

\* ObjCClass { name, superclass: None, methods: Vec::new() }
ObjCClass(name) == [name |-> name, superclass |-> None, methods |-> <<>>]

\* ObjCMethod { name, type_encoding }
ObjCMethod(name, type_encoding) == [name |-> name, type_encoding |-> type_encoding]

\* str::strip_prefix(prefix).unwrap_or("")
StripPrefixOrEmpty(s, prefix) ==
    IF StartsWith(s, prefix) THEN SliceFrom(s, Len(prefix)) ELSE <<>>

\* str::strip_suffix(suffix).unwrap_or("")
StripSuffixOrEmpty(s, suffix) ==
    IF EndsWith(s, suffix) THEN SliceTo(s, Len(s) - Len(suffix)) ELSE <<>>

\* str::find(needle) for a string needle: 0-based byte offset or -1
FindStr(s, needle) ==
    IF Contains(s, needle)
    THEN CHOOSE i \in 0..(Len(s) - Len(needle)) :
            /\ SubSeq(s, i + 1, i + Len(needle)) = needle
            /\ \A j \in 0..(i - 1) : SubSeq(s, j + 1, j + Len(needle)) # needle
    ELSE -1

\* line.splitn(2, sep).collect(): one part, or the parts around the first sep
SplitN2(s, sep) ==
    LET at == FindStr(s, sep)
    IN  IF at = -1 THEN <<s>>
        ELSE <<SliceTo(s, at), SliceFrom(s, at + Len(sep))>>

INTERFACE_PREFIX == <<"@", "i", "n", "t", "e", "r", "f", "a", "c", "e", " ">>
SUPERCLASS_PREFIX == <<"S", "u", "p", "e", "r", "c", "l", "a", "s", "s", ":", " ">>
METHODS_PREFIX == <<"M", "e", "t", "h", "o", "d", "s", " ", "(">>
PROPERTIES_PREFIX == <<"P", "r", "o", "p", "e", "r", "t", "i", "e", "s", " ", "(">>
END_LINE == <<"@", "e", "n", "d">>
METHOD_PREFIX == <<"-", " ">>
PROPERTY_PREFIX == <<"@", "p", "r", "o", "p", "e", "r", "t", "y", " ">>
BRACKET_SEP == <<" ", "[">>

\* the arm of the if / else-if chain of lines 36-96 that a trimmed line takes
Arm(line, inM, inP) ==
    IF StartsWith(line, INTERFACE_PREFIX) THEN "interface"
    ELSE IF StartsWith(line, SUPERCLASS_PREFIX) THEN "superclass"
    ELSE IF StartsWith(line, METHODS_PREFIX) THEN "methods"
    ELSE IF StartsWith(line, PROPERTIES_PREFIX) THEN "properties"
    ELSE IF line = END_LINE THEN "end"
    ELSE IF inM /\ StartsWith(line, METHOD_PREFIX) THEN "method"
    ELSE IF inP /\ StartsWith(line, PROPERTY_PREFIX) THEN "property"
    ELSE "none"

InitDump ==
    /\ lines = <<>>
    /\ classes = <<>>
    /\ current_class = None
    /\ in_methods = FALSE
    /\ in_properties = FALSE
    /\ dump_pc = "loop"
    /\ TypeIdle /\ EncIdle /\ RenderIdle /\ TbdIdle /\ SymIdle /\ GenIdle /\ SanIdle

\* the loop reads the next line, raw, and it takes the given arm
Reads(raw, arm) ==
    /\ dump_pc = "loop"
    /\ Len(lines) < MaxLines
    /\ Arm(Trim(raw), in_methods, in_properties) = arm
    /\ lines' = Append(lines, raw)
    /\ UNCHANGED <<dump_pc, typeVars, encVars, renderVars, tbdVars, symVars, genVars, sanVars>>

\* InterfaceLine that drops the class in progress instead of saving it
InterfaceLineNoFlush ==
    \E raw \in DumpLines :
        /\ Reads(raw, "interface")
        /\ classes' = classes
        /\ current_class' = ObjCClass(Trim(StripPrefixOrEmpty(Trim(raw), INTERFACE_PREFIX)))
        /\ in_methods' = FALSE
        /\ in_properties' = FALSE

\* lines 36-55: a new interface
InterfaceLine ==
    \E raw \in DumpLines :
        /\ Reads(raw, "interface")
        /\ classes' = IF current_class # None THEN Append(classes, current_class)
                      ELSE classes
        /\ current_class' = ObjCClass(Trim(StripPrefixOrEmpty(Trim(raw), INTERFACE_PREFIX)))
        /\ in_methods' = FALSE
        /\ in_properties' = FALSE

\* SuperclassLine that also writes the superclass into the record saved last
SuperclassLineOnSaved ==
    \E raw \in DumpLines :
        /\ Reads(raw, "superclass")
        /\ current_class' =
            IF current_class # None
            THEN [current_class EXCEPT
                    !.superclass = Some(SliceFrom(Trim(raw), Len(SUPERCLASS_PREFIX)))]
            ELSE current_class
        /\ classes' =
            IF classes # <<>>
            THEN [classes EXCEPT
                    ![Len(classes)].superclass = Some(SliceFrom(Trim(raw), Len(SUPERCLASS_PREFIX)))]
            ELSE classes
        /\ UNCHANGED <<in_methods, in_properties>>

\* lines 57-61: the superclass of the open class
SuperclassLine ==
    \E raw \in DumpLines :
        /\ Reads(raw, "superclass")
        /\ current_class' =
            IF current_class # None
            THEN [current_class EXCEPT
                    !.superclass = Some(SliceFrom(Trim(raw), Len(SUPERCLASS_PREFIX)))]
            ELSE current_class
        /\ UNCHANGED <<classes, in_methods, in_properties>>

\* lines 63-66: the methods section starts
MethodsHeader ==
    \E raw \in DumpLines :
        /\ Reads(raw, "methods")
        /\ in_methods' = TRUE
        /\ in_properties' = FALSE
        /\ UNCHANGED <<classes, current_class>>

\* PropertiesHeader that leaves in_methods as it is
PropertiesHeaderKeepMethods ==
    \E raw \in DumpLines :
        /\ Reads(raw, "properties")
        /\ in_methods' = in_methods
        /\ in_properties' = TRUE
        /\ UNCHANGED <<classes, current_class>>

\* lines 68-71: the properties section starts
PropertiesHeader ==
    \E raw \in DumpLines :
        /\ Reads(raw, "properties")
        /\ in_methods' = FALSE
        /\ in_properties' = TRUE
        /\ UNCHANGED <<classes, current_class>>

\* EndLine that saves the class in progress
EndLineFlush ==
    \E raw \in DumpLines :
        /\ Reads(raw, "end")
        /\ in_methods' = FALSE
        /\ in_properties' = FALSE
        /\ classes' = IF current_class # None THEN Append(classes, current_class)
                      ELSE classes
        /\ current_class' = None

\* lines 73-76: end of interface
EndLine ==
    \E raw \in DumpLines :
        /\ Reads(raw, "end")
        /\ in_methods' = FALSE
        /\ in_properties' = FALSE
        /\ UNCHANGED <<classes, current_class>>

\* MethodLine that keeps the closing bracket in the encoding
MethodLineKeepBracket ==
    \E raw \in DumpLines :
        /\ Reads(raw, "method")
        /\ LET parts == SplitN2(Trim(raw), BRACKET_SEP)
           IN  current_class' =
                IF current_class # None /\ Len(parts) = 2
                THEN LET method_name == Trim(StripPrefixOrEmpty(parts[1], METHOD_PREFIX))
                         type_encoding == Trim(parts[2])
                     IN  [current_class EXCEPT
                            !.methods = Append(@, ObjCMethod(method_name, type_encoding))]
                ELSE current_class
        /\ UNCHANGED <<classes, in_methods, in_properties>>

\* lines 78-92: a method line in the methods section
MethodLine ==
    \E raw \in DumpLines :
        /\ Reads(raw, "method")
        /\ LET parts == SplitN2(Trim(raw), BRACKET_SEP)
           IN  current_class' =
                IF current_class # None /\ Len(parts) = 2
                THEN LET method_name == Trim(StripPrefixOrEmpty(parts[1], METHOD_PREFIX))
                         type_encoding == Trim(StripSuffixOrEmpty(parts[2], <<"]">>))
                     IN  [current_class EXCEPT
                            !.methods = Append(@, ObjCMethod(method_name, type_encoding))]
                ELSE current_class
        /\ UNCHANGED <<classes, in_methods, in_properties>>

\* PropertyLine that records the property line among the methods
PropertyLineRecorded ==
    \E raw \in DumpLines :
        /\ Reads(raw, "property")
        /\ current_class' =
            IF current_class # None
            THEN [current_class EXCEPT
                    !.methods = Append(@, ObjCMethod(SliceFrom(Trim(raw), Len(PROPERTY_PREFIX)),
                                                   <<>>))]
            ELSE current_class
        /\ UNCHANGED <<classes, in_methods, in_properties>>

\* lines 94-96: a property line in the properties section; the arm is empty
PropertyLine ==
    \E raw \in DumpLines :
        /\ Reads(raw, "property")
        /\ UNCHANGED <<classes, current_class, in_methods, in_properties>>

\* a line that takes no arm of the chain
OtherLine ==
    \E raw \in DumpLines :
        /\ Reads(raw, "none")
        /\ UNCHANGED <<classes, current_class, in_methods, in_properties>>

\* lines 99-104: the input has ended; save the last class and return
EndOfInput ==
    /\ dump_pc = "loop"
    /\ classes' = IF current_class # None THEN Append(classes, current_class)
                  ELSE classes
    /\ current_class' = None
    /\ dump_pc' = "done"
    /\ UNCHANGED <<lines, in_methods, in_properties, typeVars, encVars, renderVars, tbdVars, symVars, genVars, sanVars>>

NextDump ==
    \/ InterfaceLine
    \/ SuperclassLine
    \/ MethodsHeader
    \/ PropertiesHeader
    \/ EndLine
    \/ MethodLine
    \/ PropertyLine
    \/ OtherLine
    \/ EndOfInput

SpecDump == InitDump /\ [][NextDump]_vars

----------------------------------------------------------------------------
(* Claims about parse_class_dump, checked under SpecDump.                  *)

\* a raw line is an interface-open line
IsInterfaceOpen(raw) == StartsWith(Trim(raw), <<"@", "i", "n", "t", "e", "r", "f", "a", "c", "e", " ">>)

\* the class name an interface-open line gives
InterfaceName(raw) == Trim(SubSeq(Trim(raw), 11 + 1, Len(Trim(raw))))

\* the line the last step has read
LastLine == lines[Len(lines)]

\* C7: the result holds one ClassRecord per interface-open line, in the order
\* of the lines; an interface-open line saves the record in progress and
\* opens a new one with both flags false, and the record open at the end of
\* the input is saved last.
C7_OneRecordPerInterface ==
    LET opens == SelectSeq(lines, IsInterfaceOpen)
        saved == IF dump_pc = "done" \/ current_class = None
                 THEN classes
                 ELSE Append(classes, current_class)
    IN  /\ dump_pc \in {"loop", "done"} =>
            /\ Len(saved) = Len(opens)
            /\ \A i \in 1..Len(opens) : saved[i].name = InterfaceName(opens[i])
        /\ dump_pc = "loop" =>
            /\ Len(classes) = Len(opens) - (IF current_class = None THEN 0 ELSE 1)
            /\ (lines # <<>> /\ IsInterfaceOpen(LastLine)) =>
                /\ ~in_methods
                /\ ~in_properties
                /\ current_class = [name |-> InterfaceName(LastLine),
                                    superclass |-> None, methods |-> <<>>]
        /\ dump_pc = "done" => current_class = None

\* C7 witness: a dump with two interface-open lines has been parsed to the end
C7_Witness ==
    /\ dump_pc = "done"
    /\ Len(SelectSeq(lines, IsInterfaceOpen)) = 2
    /\ Len(classes) = 2

\* the step reads a line whose trimmed text starts with the method marker
ReadsMethodMarker ==
    /\ Len(lines') = Len(lines) + 1
    /\ StartsWith(Trim(lines'[Len(lines')]), <<"-", " ">>)

\* s without its last byte when that is ']', else s
DropTrailingBracket(s) ==
    IF s # <<>> /\ s[Len(s)] = "]" THEN SubSeq(s, 1, Len(s) - 1) ELSE s

\* C8 as stated: a method line appends a record iff in_methods holds, a record
\* is open and the line holds " ["; the selector is the text between the
\* marker and the first " [", the encoding is the rest with the trailing ']'
\* stripped (both taken without surrounding whitespace); any other method
\* line changes nothing.
C8_MethodLineAsStated ==
    [][ReadsMethodMarker =>
        LET t == Trim(lines'[Len(lines')])
            at == FindStr(t, <<" ", "[">>)
        IN  IF in_methods /\ current_class # None /\ at # -1
            THEN /\ current_class' =
                        [current_class EXCEPT !.methods = Append(@,
                            [name |-> Trim(SubSeq(t, 3, at)),
                             type_encoding |->
                                Trim(DropTrailingBracket(SliceFrom(t, at + 2)))])]
                 /\ UNCHANGED <<classes, in_methods, in_properties>>
            ELSE UNCHANGED <<classes, current_class, in_methods, in_properties>>]_vars

\* C8 amended: as C8, except that the encoding is empty when the rest of the
\* line does not end in ']'.
C8_MethodLine ==
    [][ReadsMethodMarker =>
        LET t == Trim(lines'[Len(lines')])
            at == FindStr(t, <<" ", "[">>)
            rest == SliceFrom(t, at + 2)
        IN  IF in_methods /\ current_class # None /\ at # -1
            THEN /\ current_class' =
                        [current_class EXCEPT !.methods = Append(@,
                            [name |-> Trim(SubSeq(t, 3, at)),
                             type_encoding |->
                                IF rest # <<>> /\ rest[Len(rest)] = "]"
                                THEN Trim(SubSeq(rest, 1, Len(rest) - 1))
                                ELSE <<>>])]
                 /\ UNCHANGED <<classes, in_methods, in_properties>>
            ELSE UNCHANGED <<classes, current_class, in_methods, in_properties>>]_vars

\* C8 witness: "- baz [v16@0:8]" has been read in the methods section of an
\* open record and recorded as selector baz, encoding v16@0:8
C8_Witness ==
    /\ dump_pc = "loop"
    /\ lines # <<>>
    /\ LastLine = <<"-", " ", "b", "a", "z", " ", "[", "v", "1", "6", "@", "0", ":", "8", "]">>
    /\ current_class # None
    /\ current_class.methods # <<>>
    /\ current_class.methods[Len(current_class.methods)] =
            [name |-> <<"b", "a", "z">>, type_encoding |-> <<"v", "1", "6", "@", "0", ":", "8">>]

\* the step reads a property line in the properties section of an open record
ReadsPropertyLine ==
    /\ Len(lines') = Len(lines) + 1
    /\ StartsWith(Trim(lines'[Len(lines')]), <<"@", "p", "r", "o", "p", "e", "r", "t", "y", " ">>)
    /\ in_properties
    /\ current_class # None

\* C9 as stated: a property line read in the properties section of an open
\* record is recorded in that record.
C9_PropertyRecorded ==
    [][ReadsPropertyLine => current_class' # current_class]_vars

\* C9 amended: a property line read in the properties section of an open
\* record is dropped: the result, the open record and both flags stay as
\* they are.
C9_PropertyIgnored ==
    [][ReadsPropertyLine =>
        UNCHANGED <<classes, current_class, in_methods, in_properties>>]_vars

\* C9 witness: a property line has been read in the properties section of an
\* open record
C9_Witness ==
    /\ dump_pc = "loop"
    /\ lines # <<>>
    /\ StartsWith(Trim(LastLine), <<"@", "p", "r", "o", "p", "e", "r", "t", "y", " ">>)
    /\ in_properties
    /\ current_class # None

----------------------------------------------------------------------------
(* parse_tbd_file.  The YAML text is modelled by its leading text, which   *)
(* the marker tests read, and by what serde_yaml makes of it: an error, or *)
(* the `exports` key (absent, or a list of stanzas whose three keys are    *)
(* each absent or a list of names).                                        *)

V3_MARKER == <<"!", "t", "a", "p", "i", "-", "t", "b", "d", "-", "v", "3">>
TBD_START == <<"-", "-", "-", " ", "!", "t", "a", "p", "i", "-", "t", "b", "d">>
V4_MARKER == <<"!", "t", "a", "p", "i", "-", "t", "b", "d", "-", "v", "4">>

\* leading texts of the documents
Headers ==
    { <<"-", "-", "-", " ", "!", "t", "a", "p", "i", "-", "t", "b", "d", "-", "v", "3">>,
      <<"\n", "-", "-", "-", " ", "!", "t", "a", "p", "i", "-", "t", "b", "d", "-", "v", "3">>,
      <<"-", "-", "-", " ", "!", "t", "a", "p", "i", "-", "t", "b", "d", "-", "v", "4">>,
      <<"#", " ", "!", "t", "a", "p", "i", "-", "t", "b", "d", "-", "v", "4">>,
      <<"-", "-", "-", " ", "!", "t", "a", "p", "i", "-", "t", "b", "d", "-", "v", "2">>,
      <<"a", "r", "c", "h", "s", ":", " ", "[", "a", "r", "m", "6", "4", "]">> }

\* names listed under `symbols`
SymbolNames == {<<"A">>, <<"B">>}

\* every list of at most n names of the set names
Lists(names, n) == UNION {[1..k -> names] : k \in 0..n}

\* the values of the key `symbols` of a stanza: absent, or a list
SymbolFields == {None} \cup {Some(l) : l \in Lists(SymbolNames, MaxList)}

\* the export stanzas of the enumerated documents
Stanzas ==
    {[symbols |-> sy, objc_classes |-> oc[1], objc_ivars |-> oc[2]] :
        sy \in SymbolFields,
        oc \in { <<None, None>>,
                 <<Some(<<<<"T", "e", "s", "t", "C", "l", "a", "s", "s">>>>), None>>,
                 <<Some(<<<<"T", "e", "s", "t", "C", "l", "a", "s", "s">>, <<"T", "e", "s", "t", "V", "i", "e", "w", "C", "o", "n", "t", "r", "o", "l", "l", "e", "r">>>>), Some(<<<<"T", "e", "s", "t", "C", "l", "a", "s", "s", ".", "_", "x">>>>)>> }}

\* what serde_yaml::from_str makes of a document
YamlErr == [kind |-> "Err"]
YamlOk(exp) == [kind |-> "Ok", exports |-> exp]

\* the document of section 8 of the specification: symbol lists [A, B], [C]
SampleDocument ==
    [text |-> <<"\n", "-", "-", "-", " ", "!", "t", "a", "p", "i", "-", "t", "b", "d", "-", "v", "3">>,
     yaml |-> YamlOk(Some(<<
        [symbols |-> Some(<< <<"A">>, <<"B">> >>), objc_classes |-> None,
         objc_ivars |-> None],
        [symbols |-> Some(<< <<"C">> >>), objc_classes |-> Some(<<<<"T", "e", "s", "t", "C", "l", "a", "s", "s">>>>),
         objc_ivars |-> None] >>))]

Documents ==
    {[text |-> h, yaml |-> y] :
        h \in Headers,
        y \in {YamlErr, YamlOk(None)}
              \cup {YamlOk(Some(st)) : st \in Lists(Stanzas, MaxStanzas)}}
    \cup {SampleDocument}

\* fs::read_to_string(path) failed
Unreadable == [kind |-> "Unreadable"]

\* TbdInfo::default()
TbdInfoDefault == [symbols |-> <<>>, objc_classes |-> <<>>, objc_ivars |-> <<>>]

\* #[serde(default)]: an absent key deserializes to an empty Vec
OrDefault(field) == IF field = None THEN <<>> ELSE field.value

\* the deserialized TbdExport / TbdExportV4 of a stanza
TbdExport(stanza) ==
    [symbols |-> OrDefault(stanza.symbols),
     objc_classes |-> OrDefault(stanza.objc_classes),
     objc_ivars |-> OrDefault(stanza.objc_ivars)]

\* the deserialized `exports: Option<Vec<TbdExport>>`, None taken as no stanza
DeserializedExports(yaml) ==
    IF yaml.exports = None THEN <<>>
    ELSE [i \in 1..Len(yaml.exports.value) |-> TbdExport(yaml.exports.value[i])]

\* ExtendInfo that leaves out the names the list already holds
ExtendInfoDedup(i, export) ==
    [symbols |-> i.symbols \o SelectSeq(export.symbols,
                    LAMBDA x : \A k \in 1..Len(i.symbols) : i.symbols[k] # x),
     objc_classes |-> i.objc_classes \o export.objc_classes,
     objc_ivars |-> i.objc_ivars \o export.objc_ivars]

\* the body of the for loop: the three extend calls
ExtendInfo(i, export) ==
    [symbols |-> i.symbols \o export.symbols,
     objc_classes |-> i.objc_classes \o export.objc_classes,
     objc_ivars |-> i.objc_ivars \o export.objc_ivars]

\* IsV3 that takes every document for a v3 document
IsV3Always(text) == TRUE

\* the condition of line 118
IsV3(text) == Contains(text, V3_MARKER) \/ StartsWith(text, TBD_START)

\* the condition of line 135
IsV4(text) == Contains(text, V4_MARKER)

InitTbd ==
    /\ content \in Documents \cup {Unreadable}
    /\ info = None
    /\ exports = <<>>
    /\ tbd_pc = "start"
    /\ tbd_result = None
    /\ TypeIdle /\ EncIdle /\ RenderIdle /\ DumpIdle /\ SymIdle /\ GenIdle /\ SanIdle

\* lines 118-122: the v3 marker matched and the document deserialized
OpenV3 ==
    /\ tbd_pc = "start"
    /\ content # Unreadable
    /\ IsV3(content.text)
    /\ content.yaml.kind = "Ok"
    /\ info' = TbdInfoDefault
    /\ exports' = DeserializedExports(content.yaml)
    /\ tbd_pc' = "v3"
    /\ UNCHANGED <<content, tbd_result, typeVars, encVars, renderVars, dumpVars, symVars, genVars, sanVars>>

\* lines 123-127: one round of the v3 for loop
ExtendV3 ==
    /\ tbd_pc = "v3"
    /\ exports # <<>>
    /\ info' = ExtendInfo(info, Head(exports))
    /\ exports' = Tail(exports)
    /\ UNCHANGED <<content, tbd_pc, tbd_result, typeVars, encVars, renderVars, dumpVars, symVars, genVars, sanVars>>

\* line 130: return Some(info)
ReturnV3 ==
    /\ tbd_pc = "v3"
    /\ exports = <<>>
    /\ tbd_result' = Some(info)
    /\ tbd_pc' = "done"
    /\ UNCHANGED <<content, info, exports, typeVars, encVars, renderVars, dumpVars, symVars, genVars, sanVars>>

\* lines 135-139: the v3 attempt did not return, the v4 marker matched and
\* the document deserialized
OpenV4 ==
    /\ tbd_pc = "start"
    /\ content # Unreadable
    /\ ~(IsV3(content.text) /\ content.yaml.kind = "Ok")
    /\ IsV4(content.text)
    /\ content.yaml.kind = "Ok"
    /\ info' = TbdInfoDefault
    /\ exports' = DeserializedExports(content.yaml)
    /\ tbd_pc' = "v4"
    /\ UNCHANGED <<content, tbd_result, typeVars, encVars, renderVars, dumpVars, symVars, genVars, sanVars>>

\* lines 140-144: one round of the v4 for loop
ExtendV4 ==
    /\ tbd_pc = "v4"
    /\ exports # <<>>
    /\ info' = ExtendInfo(info, Head(exports))
    /\ exports' = Tail(exports)
    /\ UNCHANGED <<content, tbd_pc, tbd_result, typeVars, encVars, renderVars, dumpVars, symVars, genVars, sanVars>>

\* line 147: return Some(info)
ReturnV4 ==
    /\ tbd_pc = "v4"
    /\ exports = <<>>
    /\ tbd_result' = Some(info)
    /\ tbd_pc' = "done"
    /\ UNCHANGED <<content, info, exports, typeVars, encVars, renderVars, dumpVars, symVars, genVars, sanVars>>

\* lines 115 and 151: the file was not read, or neither attempt returned
ReturnNone ==
    /\ tbd_pc = "start"
    /\ \/ content = Unreadable
       \/ /\ content # Unreadable
          /\ ~(IsV3(content.text) /\ content.yaml.kind = "Ok")
          /\ ~(IsV4(content.text) /\ content.yaml.kind = "Ok")
    /\ tbd_result' = None
    /\ tbd_pc' = "done"
    /\ UNCHANGED <<content, info, exports, typeVars, encVars, renderVars, dumpVars, symVars, genVars, sanVars>>

NextTbd ==
    \/ OpenV3
    \/ ExtendV3
    \/ ReturnV3
    \/ OpenV4
    \/ ExtendV4
    \/ ReturnV4
    \/ ReturnNone

SpecTbd == InitTbd /\ [][NextTbd]_vars

----------------------------------------------------------------------------
(* Claims about parse_tbd_file, checked under SpecTbd.                     *)

\* the stanzas of the document as written, none when `exports` is absent
WrittenStanzas ==
    IF content.yaml.exports = None THEN <<>> ELSE content.yaml.exports.value

\* s1.key ++ ... ++ sn.key, an absent key counted as the empty list
RECURSIVE ConcatKey(_, _)
ConcatKey(stanzas, key) ==
    IF stanzas = <<>> THEN <<>>
    ELSE (IF Head(stanzas)[key] = None THEN <<>> ELSE Head(stanzas)[key].value)
         \o ConcatKey(Tail(stanzas), key)

\* C10: for a recognised document the three lists returned are the
\* concatenations of the stanzas' lists, in document order, with the order
\* inside each stanza and the duplicates kept and absent lists empty.
C10_Flattening ==
    (tbd_pc = "done" /\ tbd_result # None) =>
        /\ tbd_result.value.symbols = ConcatKey(WrittenStanzas, "symbols")
        /\ tbd_result.value.objc_classes = ConcatKey(WrittenStanzas, "objc_classes")
        /\ tbd_result.value.objc_ivars = ConcatKey(WrittenStanzas, "objc_ivars")

\* C10 witness: the document with symbol lists [A, B] and [C] has been
\* flattened to [A, B, C]
C10_Witness ==
    /\ tbd_pc = "done"
    /\ tbd_result # None
    /\ Len(WrittenStanzas) = 2
    /\ tbd_result.value.symbols = << <<"A">>, <<"B">>, <<"C">> >>

\* the document carries the version-3 or the version-4 marker
CarriesVersionMarker ==
    Contains(content.text, <<"!", "t", "a", "p", "i", "-", "t", "b", "d", "-", "v", "3">>) \/ Contains(content.text, <<"!", "t", "a", "p", "i", "-", "t", "b", "d", "-", "v", "4">>)

\* C11 as stated: a document that carries neither the version-3 nor the
\* version-4 marker, or whose deserialization failed, yields None.
C11_NoMarkerNoResult ==
    (tbd_pc = "done" /\ content # Unreadable) =>
        ((~CarriesVersionMarker \/ content.yaml.kind = "Err") => tbd_result = None)

\* the document carries one of the three markers the parser tests: the
\* version-3 marker, the version-4 marker, or "--- !tapi-tbd" as its first
\* bytes
CarriesTestedMarker ==
    \/ CarriesVersionMarker
    \/ (Len(content.text) >= 13 /\ SubSeq(content.text, 1, 13) = <<"-", "-", "-", " ", "!", "t", "a", "p", "i", "-", "t", "b", "d">>)

\* C11 amended: None is returned for a file that cannot be read, for a
\* document that carries none of the three tested markers, and for a document
\* that fails to deserialize; every call returns.
C11_NoTestedMarkerNoResult ==
    /\ (tbd_pc = "done" /\ content = Unreadable) => tbd_result = None
    /\ (tbd_pc = "done" /\ content # Unreadable) =>
            ((~CarriesTestedMarker \/ content.yaml.kind = "Err") => tbd_result = None)
    /\ tbd_pc = "start" => ENABLED NextTbd

\* C11 witness: a document whose marker matched and whose deserialization
\* failed has returned None
C11_Witness ==
    /\ tbd_pc = "done"
    /\ content # Unreadable
    /\ Contains(content.text, <<"!", "t", "a", "p", "i", "-", "t", "b", "d", "-", "v", "3">>)
    /\ content.yaml.kind = "Err"
    /\ tbd_result = None

----------------------------------------------------------------------------
(* TbdInfo::get_c_functions and TbdInfo::get_constants.                    *)

\* most symbols of an enumerated `symbols` list
MaxSyms == 2

\* the ASCII lowercase letters
AsciiLower ==
    {"a", "b", "c", "d", "e", "f", "g", "h", "i", "j", "k", "l", "m",
     "n", "o", "p", "q", "r", "s", "t", "u", "v", "w", "x", "y", "z"}

\* the ASCII uppercase letters
AsciiUpper ==
    {"A", "B", "C", "D", "E", "F", "G", "H", "I", "J", "K", "L", "M",
     "N", "O", "P", "Q", "R", "S", "T", "U", "V", "W", "X", "Y", "Z"}

\* char::is_lowercase, for the characters of the model (U+00E9 is lowercase)
IsLowercase(ch) == (Len(ch) = 1 /\ ch[1] \in AsciiLower) \/ ch = EAcute

\* char::is_uppercase, for the characters of the model
IsUppercase(ch) == Len(ch) = 1 /\ ch[1] \in AsciiUpper

\* s.trim_start_matches('_')
StripUnderscores(s) == TrimStartMatches(s, {"_"})

\* s.starts_with("$ld$") || s.contains("_OBJC_")
IsLinkerOrObjC(s) == StartsWith(s, <<"$", "l", "d", "$">>) \/ Contains(s, <<"_", "O", "B", "J", "C", "_">>)

\* name starts with 'k', is longer than one byte, and its second character
\* is uppercase
IsKConstant(name) ==
    /\ StartsWith(name, <<"k">>)
    /\ Len(name) > 1
    /\ LET c == CharsNth(name, 1)
       IN  IF c.kind = "Some" THEN IsUppercase(c.ch) ELSE FALSE

\* HasFunctionPrefix that does not know the CG prefix
HasFunctionPrefixNoCG(name) == StartsWith(name, <<"N", "S">>) \/ StartsWith(name, <<"C", "F">>)

\* name.starts_with("NS") || name.starts_with("CF") || name.starts_with("CG")
HasFunctionPrefix(name) ==
    StartsWith(name, <<"N", "S">>) \/ StartsWith(name, <<"C", "F">>) \/ StartsWith(name, <<"C", "G">>)

\* name.chars().next().map(|c| c.is_lowercase()).unwrap_or(false)
StartsLowercase(name) ==
    LET c == CharsNth(name, 0)
    IN  IF c.kind = "Some" THEN IsLowercase(c.ch) ELSE FALSE

\* IsCFunction that does not skip the constants
IsCFunctionKeepsConstants(s) ==
    LET name == StripUnderscores(s)
    IN  IF IsLinkerOrObjC(s) THEN FALSE
        ELSE HasFunctionPrefix(name) \/ StartsLowercase(name)

\* the filter closure of get_c_functions
IsCFunction(s) ==
    LET name == StripUnderscores(s)
    IN  IF IsLinkerOrObjC(s) THEN FALSE
        ELSE IF IsKConstant(name) THEN FALSE
        ELSE HasFunctionPrefix(name) \/ StartsLowercase(name)

\* the filter closure of get_constants
IsConstant(s) ==
    LET name == StripUnderscores(s)
    IN  IF IsLinkerOrObjC(s) THEN FALSE
        ELSE IF HasFunctionPrefix(name)
                /\ \E i \in 1..Len(Chars(name)) : IsLowercase(Chars(name)[i])
             THEN FALSE
        ELSE IsKConstant(name)

\* .map(|s| s.trim_start_matches('_').to_string()).collect()
MapStripped(selected) == [i \in 1..Len(selected) |-> StripUnderscores(selected[i])]

get_c_functions(symbols) == MapStripped(SelectSeq(symbols, IsCFunction))

get_constants(symbols) == MapStripped(SelectSeq(symbols, IsConstant))

\* the symbol names the lists are drawn from
SymbolSamples ==
    { <<"_", "N", "S", "L", "o", "g">>, <<"_", "C", "F", "R", "e", "l", "e", "a", "s", "e">>, <<"_", "C", "G", "R", "e", "c", "t", "M", "a", "k", "e">>, <<"_", "k", "T", "e", "s", "t", "C", "o", "n", "s", "t", "a", "n", "t">>, <<"_", "T", "e", "s", "t", "F", "u", "n", "c", "t", "i", "o", "n">>,
      <<"_", "m", "a", "l", "l", "o", "c">>, <<"_", "_", "f", "o", "o">>, <<"$", "l", "d", "$", "h", "i", "d", "e">>, <<"_", "O", "B", "J", "C", "_", "C", "L", "A", "S", "S", "_", "$", "_", "F", "o", "o">>, <<"_", "k", "f", "o", "o">>, <<"_", "k">>, <<"_", "N", "S", "F", "O", "O">>,
      <<"_", "k", "C", "F", "N", "u", "l", "l">>, <<>>, <<"_">>, <<"N", "S", "L", "o", "g">>, <<"_", "C3", "A9", "a">>, <<"_", "x", "_", "O", "B", "J", "C", "_", "y">>, <<"_", "_", "k", "F", "o", "o">>, <<"_", "C", "G">> }

\* the `symbols` lists of up to n symbols
RECURSIVE SymbolLists(_)
SymbolLists(n) ==
    IF n = 0 THEN {<<>>}
    ELSE SymbolLists(n - 1)
         \cup {Append(l, s) : l \in {x \in SymbolLists(n - 1) : Len(x) = n - 1},
                              s \in SymbolSamples}

InitSym ==
    /\ self_symbols \in SymbolLists(MaxSyms)
    /\ c_functions = None
    /\ constants = None
    /\ TypeIdle /\ EncIdle /\ RenderIdle /\ DumpIdle /\ TbdIdle /\ GenIdle /\ SanIdle

\* a call of get_c_functions(&self)
GetCFunctions ==
    /\ c_functions = None
    /\ c_functions' = Some(get_c_functions(self_symbols))
    /\ UNCHANGED <<self_symbols, constants, typeVars, encVars, renderVars, dumpVars, tbdVars, genVars, sanVars>>

\* a call of get_constants(&self)
GetConstants ==
    /\ constants = None
    /\ constants' = Some(get_constants(self_symbols))
    /\ UNCHANGED <<self_symbols, c_functions, typeVars, encVars, renderVars, dumpVars, tbdVars, genVars, sanVars>>

NextSym == GetCFunctions \/ GetConstants

SpecSym == InitSym /\ [][NextSym]_vars

----------------------------------------------------------------------------
(* Claims about the symbol views, checked under SpecSym.                   *)

\* the raw form begins with the linker-directive marker or contains the
\* ObjC-internal infix
Excluded(raw) ==
    \/ (Len(raw) >= 4 /\ SubSeq(raw, 1, 4) = <<"$", "l", "d", "$">>)
    \/ \E i \in 1..(Len(raw) - 5) : SubSeq(raw, i, i + 5) = <<"_", "O", "B", "J", "C", "_">>

\* the name with one leading underscore removed
StripOne(raw) == IF raw # <<>> /\ raw[1] = "_" THEN Tail(raw) ELSE raw

\* the name with every leading underscore removed
RECURSIVE StripAll(_)
StripAll(raw) == IF raw # <<>> /\ raw[1] = "_" THEN StripAll(Tail(raw)) ELSE raw

\* the name begins with one of the given two-letter prefixes
BeginsWithOneOf(name, prefixes) ==
    Len(name) >= 2 /\ SubSeq(name, 1, 2) \in prefixes

\* the name begins with a lowercase letter
BeginsLowercase(name) ==
    /\ name # <<>>
    /\ \/ name[1] \in AsciiLower
       \/ (Len(name) >= 2 /\ SubSeq(name, 1, 2) = EAcute)

\* the names get_c_functions returns for the occurrences that satisfy InView
ViewOf(InView(_)) ==
    LET sel == SelectSeq(self_symbols, InView)
    IN  [i \in 1..Len(sel) |-> StripAll(sel[i])]

\* the pairs of two-letter prefixes the statement may mean
PrefixPairs == {{<<"N", "S">>, <<"C", "F">>}, {<<"N", "S">>, <<"C", "G">>}, {<<"C", "F">>, <<"C", "G">>}}

\* C12 as stated: a symbol is in the function view if and only if it is not
\* excluded and its stripped name begins with one of two two-letter prefixes
\* or with a lowercase letter (for whichever two prefixes, and whether one
\* or every leading underscore is stripped).
C12_FunctionViewAsStated ==
    c_functions # None =>
        \E P \in PrefixPairs : \E all \in BOOLEAN :
            LET InView(raw) ==
                    LET name == IF all THEN StripAll(raw) ELSE StripOne(raw)
                    IN  ~Excluded(raw) /\ (BeginsWithOneOf(name, P) \/ BeginsLowercase(name))
            IN  c_functions.value = ViewOf(InView)

\* 'k' followed by an uppercase letter
BeginsKUpper(name) ==
    Len(name) >= 2 /\ name[1] = "k" /\ name[2] \in AsciiUpper

\* C12 amended: a symbol is in the function view if and only if it is not
\* excluded, its name with every leading underscore removed is not 'k'
\* followed by an uppercase letter, and that name begins with NS, CF or CG
\* or with a lowercase letter.
C12_FunctionView ==
    c_functions # None =>
        LET InView(raw) ==
                LET name == StripAll(raw)
                IN  /\ ~Excluded(raw)
                    /\ ~BeginsKUpper(name)
                    /\ (BeginsWithOneOf(name, {<<"N", "S">>, <<"C", "F">>, <<"C", "G">>}) \/ BeginsLowercase(name))
        IN  c_functions.value = ViewOf(InView)

\* C12 witness: the view has dropped a 'k' constant and kept a CG-prefixed
\* symbol
C12_Witness ==
    /\ c_functions # None
    /\ self_symbols = <<<<"_", "k", "T", "e", "s", "t", "C", "o", "n", "s", "t", "a", "n", "t">>, <<"_", "C", "G", "R", "e", "c", "t", "M", "a", "k", "e">>>>
    /\ c_functions.value = <<<<"C", "G", "R", "e", "c", "t", "M", "a", "k", "e">>>>

----------------------------------------------------------------------------
(* Digits and parse_method_encoding, checked under SpecEnc.                *)

\* ty is Unknown of one decimal digit, or a Pointer that leads to one
RECURSIVE IsDigitUnknown(_)
IsDigitUnknown(ty) ==
    \/ (ty.kind = "Unknown" /\ Len(ty.text) = 1 /\ IsDigitByte(ty.text[1]))
    \/ (ty.kind = "Pointer" /\ IsDigitUnknown(ty.inner))

\* C20: no type of a returned signature, at the top level or as the pointee
\* of a Pointer at any depth, is Unknown of a decimal digit.
C20_NoDigitType ==
    (pc = "done" /\ result.kind = "Some") =>
        /\ ~IsDigitUnknown(result.return_type)
        /\ \A i \in 1..Len(result.arg_types) : ~IsDigitUnknown(result.arg_types[i])

----------------------------------------------------------------------------
(* sanitize_class_name and sanitize_selector.                              *)

\* longest enumerated selector given to sanitize_selector, in characters
MaxSelLen == 3

\* str::replace(from, to) for a one-byte pattern
RECURSIVE Replace(_, _, _)
Replace(s, from, to) ==
    IF s = <<>> THEN <<>>
    ELSE (IF s[1] = from THEN to ELSE <<s[1]>>) \o Replace(Tail(s), from, to)

sanitize_class_name(name) ==
    LET r1 == Replace(name, ".", <<"_">>)
        r2 == Replace(r1, "-", <<"_">>)
        r3 == Replace(r2, " ", <<"_">>)
        r4 == Replace(r3, "+", <<"P", "l", "u", "s">>)
        r5 == Replace(r4, "$", <<"D", "o", "l", "l", "a", "r">>)
    IN  Replace(r5, "@", <<"A", "t">>)

\* the patterns of the match of lines 212-217
RustKeywords ==
    { <<"s", "e", "l", "f">>, <<"S", "e", "l", "f">>, <<"s", "u", "p", "e", "r">>, <<"c", "r", "a", "t", "e">>, <<"t", "y", "p", "e">>, <<"m", "o", "v", "e">>, <<"b", "o", "x">>, <<"i", "m", "p", "l">>, <<"f", "n">>, <<"l", "e", "t">>,
      <<"m", "u", "t">>, <<"r", "e", "f">>, <<"s", "t", "a", "t", "i", "c">>, <<"c", "o", "n", "s", "t">>, <<"u", "n", "s", "a", "f", "e">>, <<"a", "s", "y", "n", "c">>, <<"a", "w", "a", "i", "t">>, <<"d", "y", "n">>,
      <<"a", "b", "s", "t", "r", "a", "c", "t">>, <<"f", "i", "n", "a", "l">>, <<"o", "v", "e", "r", "r", "i", "d", "e">>, <<"m", "a", "c", "r", "o">>, <<"t", "y", "p", "e", "o", "f">>, <<"y", "i", "e", "l", "d">>, <<"r", "e", "t", "u", "r", "n">>, <<"b", "r", "e", "a", "k">>,
      <<"c", "o", "n", "t", "i", "n", "u", "e">>, <<"l", "o", "o", "p">>, <<"w", "h", "i", "l", "e">>, <<"f", "o", "r">>, <<"i", "f">>, <<"e", "l", "s", "e">>, <<"m", "a", "t", "c", "h">>, <<"p", "u", "b">>, <<"u", "s", "e">>,
      <<"e", "x", "t", "e", "r", "n">>, <<"m", "o", "d">>, <<"t", "r", "a", "i", "t">>, <<"s", "t", "r", "u", "c", "t">>, <<"e", "n", "u", "m">>, <<"u", "n", "i", "o", "n">>, <<"w", "h", "e", "r", "e">>, <<"a", "s">>, <<"i", "n">>,
      <<"b", "e", "c", "o", "m", "e">> }

\* lines 196-203: the replacements and the trim
ReplaceAndTrim(sel) ==
    LET r1 == Replace(sel, ":", <<"_">>)
        r2 == Replace(r1, "-", <<"_">>)
        r3 == Replace(r2, "+", <<"p", "l", "u", "s", "_">>)
        r4 == Replace(r3, "$", <<"d", "o", "l", "l", "a", "r", "_">>)
        r5 == Replace(r4, ".", <<"_">>)
    IN  TrimMatches(r5, {"_"})

\* lines 206-208: prefix an underscore to a result that starts with a digit
PrefixDigit(res) ==
    LET c == CharsNth(res, 0)
    IN  IF c.kind = "Some" /\ IsAsciiDigit(c.ch) THEN <<"_">> \o res ELSE res

\* lines 211-221: suffix an underscore to a keyword
SuffixKeyword(res) == IF res \in RustKeywords THEN res \o <<"_">> ELSE res

sanitize_selector(sel) == SuffixKeyword(PrefixDigit(ReplaceAndTrim(sel)))

\* the characters the enumerated selectors are made of
SelChars == {<<":">>, <<"-">>, <<"+">>, <<"$">>, <<".">>, <<"_">>, <<"a">>, <<"1">>}

\* selectors quoted by the tests of the repository, and words of Rust
SelSamples ==
    { <<"i", "n", "i", "t">>, <<"i", "n", "i", "t", "W", "i", "t", "h", "S", "t", "r", "i", "n", "g", ":">>, <<"i", "n", "i", "t", ":", "w", "i", "t", "h", ":">>, <<".", "c", "x", "x", "_", "d", "e", "s", "t", "r", "u", "c", "t">>, <<"o", "p", "e", "r", "a", "t", "o", "r", "+">>,
      <<"t", "e", "s", "t", "-", "m", "e", "t", "h", "o", "d">>, <<"s", "e", "l", "f">>, <<"t", "y", "p", "e">>, <<"a", "s", "y", "n", "c">>, <<"s", "e", "l", "f", ":">>, <<"t", "r", "u", "e">>, <<"f", "a", "l", "s", "e">>, <<"t", "r", "y">>,
      <<"d", "o">>, <<"9", "l", "i", "v", "e", "s", ":">>, <<"C3", "A9", "a", ":">> }

SelInputs == Strs(SelChars, MaxSelLen) \cup SelSamples

InitSan ==
    /\ selector \in SelInputs
    /\ san_result = None
    /\ TypeIdle /\ EncIdle /\ RenderIdle /\ DumpIdle /\ TbdIdle /\ SymIdle /\ GenIdle

\* a call of sanitize_selector(selector)
SanitizeSelector ==
    /\ san_result = None
    /\ san_result' = Some(sanitize_selector(selector))
    /\ UNCHANGED <<selector, typeVars, encVars, renderVars, dumpVars, tbdVars, symVars, genVars>>

NextSan == SanitizeSelector

SpecSan == InitSan /\ [][NextSan]_vars

----------------------------------------------------------------------------
(* Claims about sanitize_selector, checked under SpecSan.                  *)

\* the strict and reserved keywords of Rust (The Rust Reference, Keywords)
RustReservedWords ==
    { <<"a", "s">>, <<"b", "r", "e", "a", "k">>, <<"c", "o", "n", "s", "t">>, <<"c", "o", "n", "t", "i", "n", "u", "e">>, <<"c", "r", "a", "t", "e">>, <<"e", "l", "s", "e">>, <<"e", "n", "u", "m">>, <<"e", "x", "t", "e", "r", "n">>,
      <<"f", "a", "l", "s", "e">>, <<"f", "n">>, <<"f", "o", "r">>, <<"i", "f">>, <<"i", "m", "p", "l">>, <<"i", "n">>, <<"l", "e", "t">>, <<"l", "o", "o", "p">>, <<"m", "a", "t", "c", "h">>, <<"m", "o", "d">>,
      <<"m", "o", "v", "e">>, <<"m", "u", "t">>, <<"p", "u", "b">>, <<"r", "e", "f">>, <<"r", "e", "t", "u", "r", "n">>, <<"s", "e", "l", "f">>, <<"S", "e", "l", "f">>, <<"s", "t", "a", "t", "i", "c">>, <<"s", "t", "r", "u", "c", "t">>,
      <<"s", "u", "p", "e", "r">>, <<"t", "r", "a", "i", "t">>, <<"t", "r", "u", "e">>, <<"t", "y", "p", "e">>, <<"u", "n", "s", "a", "f", "e">>, <<"u", "s", "e">>, <<"w", "h", "e", "r", "e">>, <<"w", "h", "i", "l", "e">>,
      <<"a", "s", "y", "n", "c">>, <<"a", "w", "a", "i", "t">>, <<"d", "y", "n">>, <<"a", "b", "s", "t", "r", "a", "c", "t">>, <<"b", "e", "c", "o", "m", "e">>, <<"b", "o", "x">>, <<"d", "o">>, <<"f", "i", "n", "a", "l">>,
      <<"m", "a", "c", "r", "o">>, <<"o", "v", "e", "r", "r", "i", "d", "e">>, <<"p", "r", "i", "v">>, <<"t", "y", "p", "e", "o", "f">>, <<"u", "n", "s", "i", "z", "e", "d">>, <<"v", "i", "r", "t", "u", "a", "l">>, <<"y", "i", "e", "l", "d">>, <<"t", "r", "y">> }

\* the bytes of s with each byte replaced as the statement says
RECURSIVE Substituted(_)
Substituted(s) ==
    IF s = <<>> THEN <<>>
    ELSE (CASE s[1] \in {":", "-", "."} -> <<"_">>
            [] s[1] = "+" -> <<"p", "l", "u", "s", "_">>
            [] s[1] = "$" -> <<"d", "o", "l", "l", "a", "r", "_">>
            [] OTHER -> <<s[1]>>) \o Substituted(Tail(s))

\* s without its leading and trailing underscores
RECURSIVE Trimmed(_)
Trimmed(s) ==
    IF s # <<>> /\ s[1] = "_" THEN Trimmed(Tail(s))
    ELSE IF s # <<>> /\ s[Len(s)] = "_" THEN Trimmed(SubSeq(s, 1, Len(s) - 1))
    ELSE s

\* the token starts with a decimal digit
StartsWithDigit(s) == s # <<>> /\ IsDigitByte(s[1])

\* C18: the returned token is the substituted and trimmed selector, prefixed
\* with an underscore when that starts with a digit and suffixed with one
\* when it is a reserved word; it is never a reserved word and never starts
\* with a digit.
C18_SafeToken ==
    san_result # None =>
        LET t == Trimmed(Substituted(selector))
            p == IF StartsWithDigit(t) THEN <<"_">> \o t ELSE t
        IN  /\ san_result.value = (IF p \in RustReservedWords THEN p \o <<"_">> ELSE p)
            /\ san_result.value \notin RustReservedWords
            /\ ~StartsWithDigit(san_result.value)

----------------------------------------------------------------------------
(* generate_rust_bindings: the pure parts.                                 *)

\* parse_method_encoding as one function: the loop of lines 169-185 from
\* position p with the types decoded so far
RECURSIVE MethodEncodingLoop(_, _, _)
MethodEncodingLoop(cl, p, ts) ==
    IF p >= Len(cl)
    THEN IF ts = <<>> THEN None ELSE SomeSignature(ts[1], Tail(ts))
    ELSE LET c == CharsNth(cl, p)
         IN  IF c = None THEN Panic
             ELSE IF IsAsciiDigit(c.ch)
             THEN LET e == DigitRunEnd(cl, p)
                  IN  IF e = -1 THEN Panic ELSE MethodEncodingLoop(cl, e, ts)
             ELSE IF ~IsCharBoundary(cl, p) THEN Panic
             ELSE LET r == parse_type_encoding(SliceFrom(cl, p))
                  IN  IF r.ty = Panic THEN Panic
                      ELSE MethodEncodingLoop(cl, p + r.consumed, Append(ts, r.ty))

parse_method_encoding(enc) ==
    LET cl == TrimMatches(Trim(enc), {"[", "]"})
    IN  IF cl = <<>> THEN None ELSE MethodEncodingLoop(cl, 0, <<>>)

\* one decimal digit
Digit(d) == <<"0", "1", "2", "3", "4", "5", "6", "7", "8", "9">>[d + 1]

\* format!("{}", n) for a usize
RECURSIVE Decimal(_)
Decimal(n) == IF n < 10 THEN <<Digit(n)>> ELSE Decimal(n \div 10) \o <<Digit(n % 10)>>

\* str::split(c) for an ASCII character c
RECURSIVE Split(_, _)
Split(s, c) ==
    LET i == Find(s, c)
    IN  IF i = -1 THEN <<s>>
        ELSE <<SliceTo(s, i)>> \o Split(SliceFrom(s, i + 1), c)

\* the parts of s, each followed by a colon
RECURSIVE JoinWithColons(_)
JoinWithColons(parts) ==
    IF parts = <<>> THEN <<>>
    ELSE parts[1] \o <<":">> \o JoinWithColons(Tail(parts))

NonEmpty(s) == s # <<>>

\* (arg_names, msg_send_selector)
generate_selector_call(sel, arg_count) ==
    LET parts == SelectSeq(Split(sel, ":"), NonEmpty)
    IN  [ arg_names |-> [i \in 1..Min(Len(parts), arg_count) |-> <<"a", "r", "g">> \o Decimal(i - 1)],
          msg_send_selector |-> IF parts = <<>> THEN sel ELSE JoinWithColons(parts) ]

\* MsgSendFn that takes the stret path for a pointer to a struct as well
MsgSendFnThroughPointer(return_type) ==
    IF return_type.kind \in {"Float", "Double"} THEN <<"o", "b", "j", "c", "_", "m", "s", "g", "S", "e", "n", "d", "_", "f", "p", "r", "e", "t">>
    ELSE IF return_type.kind = "Struct"
            \/ (return_type.kind = "Pointer" /\ return_type.inner.kind = "Struct")
    THEN <<"o", "b", "j", "c", "_", "m", "s", "g", "S", "e", "n", "d", "_", "s", "t", "r", "e", "t">>
    ELSE <<"o", "b", "j", "c", "_", "m", "s", "g", "S", "e", "n", "d">>

\* lines 297-305: the entry point chosen by the return type; the guarded arm
\* of line 300 gives objc_msgSend, and so does the fall-through when its
\* guard is false
MsgSendFn(return_type) ==
    IF return_type.kind = "Void" THEN <<"o", "b", "j", "c", "_", "m", "s", "g", "S", "e", "n", "d">>
    ELSE IF return_type.kind \in {"Float", "Double"} THEN <<"o", "b", "j", "c", "_", "m", "s", "g", "S", "e", "n", "d", "_", "f", "p", "r", "e", "t">>
    ELSE IF return_type.kind \in {"LongLong", "UnsignedLongLong"} THEN <<"o", "b", "j", "c", "_", "m", "s", "g", "S", "e", "n", "d">>
    ELSE IF return_type.kind = "Struct" THEN <<"o", "b", "j", "c", "_", "m", "s", "g", "S", "e", "n", "d", "_", "s", "t", "r", "e", "t">>
    ELSE <<"o", "b", "j", "c", "_", "m", "s", "g", "S", "e", "n", "d">>

\* the blocks of text `output` is made of, each with the values that fill it
Preamble == [kind |-> "preamble"]

ClassOpen(class, rust_name) ==
    [kind |-> "class_open", name |-> class.name, superclass |-> class.superclass,
     rust_name |-> rust_name]

SkippedComment(method) ==
    [kind |-> "skipped", name |-> method.name, type_encoding |-> method.type_encoding]

Wrapper(method, method_name, method_args, return_type, selector_str, msg_send_fn) ==
    [kind |-> "wrapper", objc_name |-> method.name,
     type_encoding |-> method.type_encoding, method_name |-> method_name,
     arg_types |-> [i \in 1..Len(method_args) |-> to_rust_type(method_args[i])],
     return_type |-> return_type, selector_str |-> selector_str,
     msg_send_fn |-> msg_send_fn]

NSStringConvenience == [kind |-> "nsstring_convenience"]

ClassClose == [kind |-> "class_close"]

\* what generate_method_binding_named appends to output, or the panic of
\* parse_method_encoding
generate_method_binding_named(method, method_name) ==
    LET sig == parse_method_encoding(method.type_encoding)
    IN  IF sig = Panic THEN [kind |-> "Panic"]
        ELSE IF sig = None THEN [kind |-> "Ok", blocks |-> <<SkippedComment(method)>>]
        ELSE IF Len(sig.arg_types) < 2 THEN [kind |-> "Ok", blocks |-> <<>>]
        ELSE LET method_args == SubSeq(sig.arg_types, 3, Len(sig.arg_types))
                 call == generate_selector_call(method.name, Len(method_args))
             IN  [kind |-> "Ok",
                  blocks |-> <<Wrapper(method, method_name, method_args,
                                       to_rust_type(sig.return_type),
                                       call.msg_send_selector,
                                       MsgSendFn(sig.return_type))>>]

\* char::is_numeric, for the characters of the model
IsNumeric(ch) == IsAsciiDigit(ch)

\* IsInvalidName that takes the empty name only
IsInvalidNameEmptyOnly(rust_name) == rust_name = <<>>

\* line 330: rust_name.is_empty() || rust_name.starts_with(char::is_numeric)
IsInvalidName(rust_name) ==
    \/ rust_name = <<>>
    \/ LET c == CharsNth(rust_name, 0)
       IN  c.kind = "Some" /\ IsNumeric(c.ch)

\* UniqueMethodName that numbers the later occurrences from 2
UniqueMethodNameFromTwo(method_name, current_count) ==
    IF current_count > 0
    THEN method_name \o <<"_">> \o Decimal(current_count + 1)
    ELSE method_name

\* lines 365-369
UniqueMethodName(method_name, current_count) ==
    IF current_count > 0
    THEN method_name \o <<"_">> \o Decimal(current_count)
    ELSE method_name

----------------------------------------------------------------------------
(* generate_rust_bindings: the run.                                        *)

\* most methods of an enumerated class
MaxMethods == 2
\* most classes of an enumerated `classes` argument
MaxClasses == 2
\* most calls of generate_rust_bindings in a behaviour
MaxCalls == 2

\* the methods the enumerated classes are made of
MethodSamples ==
    { ObjCMethod(<<"i", "n", "i", "t">>, <<"@", "1", "6", "@", "0", ":", "8">>),
      ObjCMethod(<<"i", "n", "i", "t", ":">>, <<"@", "2", "4", "@", "0", ":", "8", "@", "1", "6">>),
      ObjCMethod(<<"i", "n", "i", "t", ":", "w", "i", "t", "h", ":">>, <<"@", "3", "2", "@", "0", ":", "8", "@", "1", "6", "@", "2", "4">>),
      ObjCMethod(<<"l", "e", "n", "g", "t", "h">>, <<"d", "1", "6", "@", "0", ":", "8">>),
      ObjCMethod(<<"f", "r", "a", "m", "e">>, <<"{", "C", "G", "R", "e", "c", "t", "=", "d", "d", "}", "1", "6", "@", "0", ":", "8">>),
      ObjCMethod(<<"b", "o", "u", "n", "d", "s">>, <<"^", "{", "C", "G", "R", "e", "c", "t", "}", "1", "6", "@", "0", ":", "8">>),
      ObjCMethod(<<"c", "o", "u", "n", "t">>, <<"q", "1", "6", "@", "0", ":", "8">>),
      ObjCMethod(<<"s", "e", "l", "f">>, <<"f", "1", "6", "@", "0", ":", "8">>),
      ObjCMethod(<<"u", "n", "k">>, <<"?", "1", "6", "@", "0", ":", "8">>),
      ObjCMethod(<<"b", "a", "z">>, <<>>),
      ObjCMethod(<<"q", "u", "x">>, <<"v">>),
      ObjCMethod(<<"b", "a", "d">>, <<"C3", "A9">>) }

\* the lists of up to n methods
RECURSIVE MethodLists(_)
MethodLists(n) ==
    IF n = 0 THEN {<<>>}
    ELSE MethodLists(n - 1)
         \cup {Append(l, x) : l \in {y \in MethodLists(n - 1) : Len(y) = n - 1},
                              x \in MethodSamples}

\* struct ObjCClass
ObjCClassOf(name, superclass, methods) ==
    [name |-> name, superclass |-> superclass, methods |-> methods]

\* whole classes the longer `classes` arguments are made of
ClassSamples ==
    { ObjCClassOf(<<"N", "S", "S", "t", "r", "i", "n", "g">>, Some(<<"N", "S", "O", "b", "j", "e", "c", "t">>),
            <<ObjCMethod(<<"l", "e", "n", "g", "t", "h">>, <<"Q", "1", "6", "@", "0", ":", "8">>), ObjCMethod(<<"i", "n", "i", "t">>, <<"@", "1", "6", "@", "0", ":", "8">>)>>),
      ObjCClassOf(<<"9", "L", "i", "v", "e", "s">>, None, <<ObjCMethod(<<"i", "n", "i", "t">>, <<"@", "1", "6", "@", "0", ":", "8">>)>>),
      ObjCClassOf(<<>>, None, <<ObjCMethod(<<"i", "n", "i", "t">>, <<"@", "1", "6", "@", "0", ":", "8">>)>>),
      ObjCClassOf(<<"N", "S", ".", "T", "h", "i", "n", "g", "+", "x">>, None,
            <<ObjCMethod(<<"i", "n", "i", "t">>, <<"@", "1", "6", "@", "0", ":", "8">>), ObjCMethod(<<"i", "n", "i", "t", ":">>, <<"@", "2", "4", "@", "0", ":", "8", "@", "1", "6">>),
              ObjCMethod(<<"b", "a", "z">>, <<>>), ObjCMethod(<<".", "i", "n", "i", "t">>, <<"v", "1", "6", "@", "0", ":", "8">>),
              ObjCMethod(<<"i", "n", "i", "t", ":", "w", "i", "t", "h", ":">>, <<"@", "3", "2", "@", "0", ":", "8", "@", "1", "6", "@", "2", "4">>)>>),
      ObjCClassOf(<<"F", "o", "o">>, Some(<<"B", "a", "r">>),
            <<ObjCMethod(<<"f", "r", "a", "m", "e">>, <<"{", "C", "G", "R", "e", "c", "t", "=", "d", "d", "}", "1", "6", "@", "0", ":", "8">>), ObjCMethod(<<"q", "u", "x">>, <<"v">>)>>),
      ObjCClassOf(<<"B", "a", "d">>, None, <<ObjCMethod(<<"b", "a", "d">>, <<"C3", "A9">>)>>),
      ObjCClassOf(<<"D", "u", "p">>, None,
            <<ObjCMethod(<<"i", "n", "i", "t">>, <<>>),
              ObjCMethod(<<"i", "n", "i", "t">>, <<"@", "1", "6", "@", "0", ":", "8">>),
              ObjCMethod(<<"i", "n", "i", "t">>, <<"@", "1", "6", "@", "0", ":", "8">>),
              ObjCMethod(<<"i", "n", "i", "t", ":", "1">>, <<"@", "2", "4", "@", "0", ":", "8", "@", "1", "6">>),
              ObjCMethod(<<":">>, <<"v", "2", "4", "@", "0", ":", "8", "@", "1", "6">>),
              ObjCMethod(<<"c", "l", "a", "s", "s">>, <<"#", "1", "6", "@", "0", ":", "8">>)>>) }

\* the lists of up to n sample classes
RECURSIVE ClassLists(_)
ClassLists(n) ==
    IF n = 0 THEN {<<>>}
    ELSE ClassLists(n - 1)
         \cup {Append(l, x) : l \in {y \in ClassLists(n - 1) : Len(y) = n - 1},
                              x \in ClassSamples}

\* the `classes` arguments: one class of enumerated methods, or sample classes
GenInputs ==
    {<<ObjCClassOf(<<"F", "o", "o">>, None, ms)>> : ms \in MethodLists(MaxMethods)}
    \cup ClassLists(MaxClasses)

InitGen ==
    /\ gen_classes \in GenInputs
    /\ output = <<>>
    /\ class_idx = 0
    /\ method_idx = 0
    /\ method_names = <<>>
    /\ gen_pc = "start"
    /\ returned = <<>>
    /\ TypeIdle /\ EncIdle /\ RenderIdle /\ DumpIdle /\ TbdIdle /\ SymIdle /\ SanIdle

\* lines 109-173: the fixed text written before the loop
WritePreamble ==
    /\ gen_pc = "start"
    /\ output' = <<Preamble>>
    /\ class_idx' = 1
    /\ gen_pc' = "classes"
    /\ UNCHANGED <<gen_classes, method_idx, method_names, returned>>
    /\ UNCHANGED <<typeVars, encVars, renderVars, dumpVars, tbdVars, symVars, sanVars>>

\* lines 327-332: generate_class_bindings returns at once
SkipClass ==
    /\ gen_pc = "classes"
    /\ class_idx <= Len(gen_classes)
    /\ IsInvalidName(sanitize_class_name(gen_classes[class_idx].name))
    /\ class_idx' = class_idx + 1
    /\ UNCHANGED <<gen_classes, output, method_idx, method_names, gen_pc, returned>>
    /\ UNCHANGED <<typeVars, encVars, renderVars, dumpVars, tbdVars, symVars, sanVars>>

\* OpenClass that keeps the method_names of the class before
OpenClassKeepNames ==
    /\ gen_pc = "classes"
    /\ class_idx <= Len(gen_classes)
    /\ LET class == gen_classes[class_idx]
           rust_name == sanitize_class_name(class.name)
       IN  /\ ~IsInvalidName(rust_name)
           /\ output' = Append(output, ClassOpen(class, rust_name))
    /\ method_names' = method_names
    /\ method_idx' = 1
    /\ gen_pc' = "methods"
    /\ UNCHANGED <<gen_classes, class_idx, returned>>
    /\ UNCHANGED <<typeVars, encVars, renderVars, dumpVars, tbdVars, symVars, sanVars>>

\* lines 327-355: the struct, the impl header, the class() accessor and a
\* fresh method_names
OpenClass ==
    /\ gen_pc = "classes"
    /\ class_idx <= Len(gen_classes)
    /\ LET class == gen_classes[class_idx]
           rust_name == sanitize_class_name(class.name)
       IN  /\ ~IsInvalidName(rust_name)
           /\ output' = Append(output, ClassOpen(class, rust_name))
    /\ method_names' = <<>>
    /\ method_idx' = 1
    /\ gen_pc' = "methods"
    /\ UNCHANGED <<gen_classes, class_idx, returned>>
    /\ UNCHANGED <<typeVars, encVars, renderVars, dumpVars, tbdVars, symVars, sanVars>>

\* lines 357-372: one turn of the method loop
GenerateMethod ==
    /\ gen_pc = "methods"
    /\ method_idx <= Len(gen_classes[class_idx].methods)
    /\ LET method == gen_classes[class_idx].methods[method_idx]
           method_name == sanitize_selector(method.name)
           current_count == IF method_name \in DOMAIN method_names
                            THEN method_names[method_name] ELSE 0
           unique_method_name == UniqueMethodName(method_name, current_count)
           binding == generate_method_binding_named(method, unique_method_name)
       IN  /\ method_names' = [k \in DOMAIN method_names \cup {method_name} |->
                                  IF k = method_name THEN current_count + 1
                                  ELSE method_names[k]]
           /\ IF binding.kind = "Panic"
              THEN gen_pc' = "panicked" /\ UNCHANGED <<output, method_idx>>
              ELSE /\ output' = output \o binding.blocks
                   /\ method_idx' = method_idx + 1
                   /\ gen_pc' = gen_pc
    /\ UNCHANGED <<gen_classes, class_idx, returned>>
    /\ UNCHANGED <<typeVars, encVars, renderVars, dumpVars, tbdVars, symVars, sanVars>>

\* lines 374-379: the NSString convenience methods and the closing brace
CloseClass ==
    /\ gen_pc = "methods"
    /\ method_idx > Len(gen_classes[class_idx].methods)
    /\ output' = output
                 \o (IF gen_classes[class_idx].name = <<"N", "S", "S", "t", "r", "i", "n", "g">>
                     THEN <<NSStringConvenience>> ELSE <<>>)
                 \o <<ClassClose>>
    /\ class_idx' = class_idx + 1
    /\ gen_pc' = "classes"
    /\ UNCHANGED <<gen_classes, method_idx, method_names, returned>>
    /\ UNCHANGED <<typeVars, encVars, renderVars, dumpVars, tbdVars, symVars, sanVars>>

\* line 179: the loop is over, output is returned
Return ==
    /\ gen_pc = "classes"
    /\ class_idx > Len(gen_classes)
    /\ returned' = Append(returned, [classes |-> gen_classes, text |-> output])
    /\ gen_pc' = "done"
    /\ UNCHANGED <<gen_classes, output, class_idx, method_idx, method_names>>
    /\ UNCHANGED <<typeVars, encVars, renderVars, dumpVars, tbdVars, symVars, sanVars>>

\* cs without its i-th class
WithoutClass(cs, i) == SubSeq(cs, 1, i - 1) \o SubSeq(cs, i + 1, Len(cs))

\* generate_rust_bindings is called again, with the same classes or with one
\* class less
CallAgain ==
    /\ gen_pc = "done"
    /\ Len(returned) < MaxCalls
    /\ gen_classes' \in {gen_classes}
                        \cup {WithoutClass(gen_classes, i) : i \in 1..Len(gen_classes)}
    /\ output' = <<>>
    /\ class_idx' = 0
    /\ method_idx' = 0
    /\ gen_pc' = "start"
    /\ UNCHANGED <<method_names, returned>>
    /\ UNCHANGED <<typeVars, encVars, renderVars, dumpVars, tbdVars, symVars, sanVars>>

NextGen ==
    \/ WritePreamble
    \/ SkipClass
    \/ OpenClass
    \/ GenerateMethod
    \/ CloseClass
    \/ Return
    \/ CallAgain

SpecGen == InitGen /\ [][NextGen]_vars

----------------------------------------------------------------------------
(* Claims about generate_rust_bindings, checked under SpecGen.             *)

\* the sanitized name of the class is empty or starts with a digit
HasSkippedName(class) ==
    LET n == sanitize_class_name(class.name)
    IN  n = <<>> \/ IsDigitByte(n[1])

\* C13: a class whose sanitized name is empty or starts with a digit emits
\* nothing: a call on the same classes without it returns the same text.
C13_SkippedClassAbsent ==
    \A a \in 1..Len(returned) : \A b \in 1..Len(returned) :
        \A i \in 1..Len(returned[a].classes) :
            (/\ HasSkippedName(returned[a].classes[i])
             /\ returned[b].classes = WithoutClass(returned[a].classes, i))
            => returned[b].text = returned[a].text

\* C13 witness: two calls have returned, the second on the classes of the
\* first without its skipped class, and another class has emitted its unit
C13_Witness ==
    /\ Len(returned) = 2
    /\ Len(returned[1].classes) = 2
    /\ Len(returned[1].text) > 1
    /\ \E i \in 1..2 :
          /\ HasSkippedName(returned[1].classes[i])
          /\ returned[2].classes = WithoutClass(returned[1].classes, i)

\* the method loop is at a method whose encoding decodes to None or to
\* fewer than two argument types
AtUndecodableMethod ==
    /\ gen_pc = "methods"
    /\ method_idx <= Len(gen_classes[class_idx].methods)
    /\ LET sig == parse_method_encoding(gen_classes[class_idx].methods[method_idx].type_encoding)
       IN  sig = None \/ (sig.kind = "Some" /\ Len(sig.arg_types) < 2)

\* C14: for a method that cannot be decoded, or decodes to fewer than two
\* argument types, the generator appends no wrapper but one comment that
\* names the method, and goes on with the next method.
C14_SkipsAreCommented ==
    [][AtUndecodableMethod =>
          /\ Len(output') = Len(output) + 1
          /\ SubSeq(output', 1, Len(output)) = output
          /\ output'[Len(output')].kind = "skipped"
          /\ output'[Len(output')].name = gen_classes[class_idx].methods[method_idx].name
          /\ method_idx' = method_idx + 1
          /\ gen_pc' = "methods"]_vars

\* the identifier the j-th method of ms is to get: its sanitized name, with
\* _N when N earlier methods of ms have the same sanitized name
ExpectedIdentifier(ms, j) ==
    LET base == sanitize_selector(ms[j].name)
        n == Cardinality({i \in 1..(j - 1) : sanitize_selector(ms[i].name) = base})
    IN  IF n = 0 THEN base ELSE base \o <<"_">> \o Decimal(n)

\* C15: within one class the wrapper of the first method of a sanitized name
\* has that name unmodified and the wrapper of the N-th later one has it
\* suffixed _N, whatever the classes before it held.
C15_DedupNames ==
    [][(/\ gen_pc = "methods"
        /\ Len(output') = Len(output) + 1
        /\ output'[Len(output')].kind = "wrapper")
       => output'[Len(output')].method_name =
              ExpectedIdentifier(gen_classes[class_idx].methods, method_idx)]_vars

\* C15 witness: three wrappers of one sanitized name, the later two suffixed
\* _1 and _2
C15_Witness ==
    \E i \in 1..Len(output) : \E j \in (i + 1)..Len(output) : \E k \in (j + 1)..Len(output) :
        /\ output[i].kind = "wrapper" /\ output[i].method_name = <<"i", "n", "i", "t">>
        /\ output[j].kind = "wrapper" /\ output[j].method_name = <<"i", "n", "i", "t", "_", "1">>
        /\ output[k].kind = "wrapper" /\ output[k].method_name = <<"i", "n", "i", "t", "_", "2">>
        /\ \A x \in i..k : output[x].kind # "class_open"

\* C16: the selector a wrapper registers equals the original selector.
C16_RegisteredSelector ==
    \A i \in 1..Len(output) :
        output[i].kind = "wrapper" => output[i].selector_str = output[i].objc_name

\* the entry point the statement gives for a return type
EntryPointFor(return_type) ==
    IF return_type.kind = "Struct" THEN <<"o", "b", "j", "c", "_", "m", "s", "g", "S", "e", "n", "d", "_", "s", "t", "r", "e", "t">>
    ELSE IF return_type.kind \in {"Float", "Double"} THEN <<"o", "b", "j", "c", "_", "m", "s", "g", "S", "e", "n", "d", "_", "f", "p", "r", "e", "t">>
    ELSE <<"o", "b", "j", "c", "_", "m", "s", "g", "S", "e", "n", "d">>

\* C17: the entry point of a wrapper is determined by the decoded return
\* type alone: stret for a struct, fpret for float and double, objc_msgSend
\* for every other type.
C17_DispatchByReturnType ==
    \A i \in 1..Len(output) :
        output[i].kind = "wrapper" =>
            output[i].msg_send_fn =
                EntryPointFor(parse_method_encoding(output[i].type_encoding).return_type)

\* C17 witness: a struct return on the stret path beside a pointer-to-struct
\* return on the standard path
C17_Witness ==
    \E i \in 1..Len(output) : \E j \in 1..Len(output) :
        /\ output[i].kind = "wrapper"
        /\ output[i].type_encoding = <<"{", "C", "G", "R", "e", "c", "t", "=", "d", "d", "}", "1", "6", "@", "0", ":", "8">>
        /\ output[i].msg_send_fn = <<"o", "b", "j", "c", "_", "m", "s", "g", "S", "e", "n", "d", "_", "s", "t", "r", "e", "t">>
        /\ output[j].kind = "wrapper"
        /\ output[j].type_encoding = <<"^", "{", "C", "G", "R", "e", "c", "t", "}", "1", "6", "@", "0", ":", "8">>
        /\ output[j].msg_send_fn = <<"o", "b", "j", "c", "_", "m", "s", "g", "S", "e", "n", "d">>

IsClassOpen(block) == block.kind = "class_open"

IsEmitted(class) == ~HasSkippedName(class)

\* C19: two calls on the same classes return the same text, and every
\* returned text is the preamble followed by the units of the classes in
\* input order.
C19_Deterministic ==
    /\ \A a \in 1..Len(returned) : \A b \in 1..Len(returned) :
          returned[a].classes = returned[b].classes => returned[a].text = returned[b].text
    /\ \A a \in 1..Len(returned) :
          LET text == returned[a].text
              opens == SelectSeq(text, IsClassOpen)
              emitted == SelectSeq(returned[a].classes, IsEmitted)
          IN  /\ text # <<>> /\ text[1] = [kind |-> "preamble"]
              /\ \A i \in 2..Len(text) : text[i].kind # "preamble"
              /\ Len(opens) = Len(emitted)
              /\ \A i \in 1..Len(opens) : opens[i].name = emitted[i].name
              /\ \A i \in 2..Len(text) :
                    text[i].kind = "class_open" => text[i - 1].kind \in {"preamble", "class_close"}
              /\ text[Len(text)].kind \in {"preamble", "class_close"}

\* C19 witness: the second call on the same two classes has returned, and
\* its text holds a deduplicated wrapper
C19_Witness ==
    /\ Len(returned) = 2
    /\ returned[1].classes = returned[2].classes
    /\ Len(returned[2].classes) = 2
    /\ \E i \in 1..Len(returned[2].text) :
          /\ returned[2].text[i].kind = "wrapper"
          /\ returned[2].text[i].method_name = <<"i", "n", "i", "t", "_", "1">>

----------------------------------------------------------------------------
(* Termination of parse_method_encoding, checked under SpecEnc.            *)

\* C21: every call returns None or a signature and no step aborts it; a turn
\* of the loop moves the scan position forward by at least one and never
\* past the end of the cleaned input.
C21_AlwaysReturns ==
    [][/\ pc' = "done" => result'.kind \in {"None", "Some"}
       /\ (pc = "loop" /\ pc' = "loop") => (pos' > pos /\ pos' <= Len(clean))]_vars

----------------------------------------------------------------------------
(* The pointer arm of parse_type_encoding, checked under SpecType.         *)

\* C22: for an input that starts with '^' the call returns the pointer to
\* the type decoded from the rest, with one more character consumed; "^v"
\* gives Pointer(Void) with 2 and "^" alone gives Pointer(Unknown("empty"))
\* with 1.
C22_PointerWraps ==
    (te_result # None /\ te_encoding # <<>> /\ te_encoding[1] = "^") =>
        LET rest == parse_type_encoding(Tail(te_encoding))
        IN  /\ te_result.ty.kind = "Pointer"
            /\ rest.ty # [kind |-> "Panic"] =>
                  /\ te_result.ty.inner = rest.ty
                  /\ te_result.consumed = 1 + rest.consumed
            /\ te_encoding = <<"^", "v">> =>
                  te_result = [ty |-> [kind |-> "Pointer", inner |-> [kind |-> "Void"]],
                               consumed |-> 2]
            /\ te_encoding = <<"^">> =>
                  te_result = [ty |-> [kind |-> "Pointer",
                                       inner |-> [kind |-> "Unknown",
                                                  text |-> <<"e", "m", "p", "t", "y">>]],
                               consumed |-> 1]

----------------------------------------------------------------------------
(* Sections and saved records of parse_class_dump, checked under SpecDump. *)

\* the step reads one more line
ReadsLine == Len(lines') = Len(lines) + 1

\* the line the step reads, without surrounding whitespace
LineRead == Trim(lines'[Len(lines')])

IsEndOfInterface(raw) == Trim(raw) = <<"@", "e", "n", "d">>

IsMethodsHeader(raw) == StartsWith(Trim(raw), <<"M", "e", "t", "h", "o", "d", "s", " ", "(">>)

IsPropertiesHeader(raw) == StartsWith(Trim(raw), <<"P", "r", "o", "p", "e", "r", "t", "i", "e", "s", " ", "(">>)

\* an end-of-interface line has been read and no methods header after it
EndedSection(ls) ==
    \E e \in 1..Len(ls) :
        /\ IsEndOfInterface(ls[e])
        /\ \A j \in (e + 1)..Len(ls) : ~IsMethodsHeader(ls[j])

\* C23: "@end" sets both flags to false and leaves the open record open and
\* the result as it is; a method line read after it and before a new methods
\* header is appended to no record; the result grows only at an
\* interface-open line or at the end of the input.
C23_EndKeepsRecordOpen ==
    [][/\ (ReadsLine /\ LineRead = <<"@", "e", "n", "d">>) =>
            /\ ~in_methods' /\ ~in_properties'
            /\ current_class' = current_class
            /\ classes' = classes
       /\ (ReadsLine /\ EndedSection(lines) /\ StartsWith(LineRead, <<"-", " ">>)) =>
            /\ current_class' = current_class
            /\ classes' = classes
       /\ classes' # classes =>
            \/ (ReadsLine /\ StartsWith(LineRead, <<"@", "i", "n", "t", "e", "r", "f", "a", "c", "e", " ">>))
            \/ (dump_pc = "loop" /\ dump_pc' = "done")]_vars

\* C23 witness: a method line has been read after "@end" and the record, still
\* open, holds no method
C23_Witness ==
    /\ lines = <<<<"@", "i", "n", "t", "e", "r", "f", "a", "c", "e", " ", "F", "o", "o">>, <<"M", "e", "t", "h", "o", "d", "s", " ", "(", "1", ")", ":">>, <<"@", "e", "n", "d">>, <<"-", " ", "b", "a", "z", " ", "[", "v", "1", "6", "@", "0", ":", "8", "]">>>>
    /\ dump_pc = "loop"
    /\ classes = <<>>
    /\ current_class = [name |-> <<"F", "o", "o">>, superclass |-> [kind |-> "None"], methods |-> <<>>]

\* C28: in_methods and in_properties are never both true, and both are false
\* right after an interface-open line and right after an end-of-interface
\* line.
C28_OneSection ==
    /\ ~(in_methods /\ in_properties)
    /\ (dump_pc = "loop" /\ lines # <<>>
        /\ (IsInterfaceOpen(LastLine) \/ IsEndOfInterface(LastLine)))
       => (~in_methods /\ ~in_properties)

\* C28 witness: the properties header has been read in the methods section
C28_Witness ==
    /\ lines = <<<<"@", "i", "n", "t", "e", "r", "f", "a", "c", "e", " ", "F", "o", "o">>, <<"M", "e", "t", "h", "o", "d", "s", " ", "(", "1", ")", ":">>, <<"P", "r", "o", "p", "e", "r", "t", "i", "e", "s", " ", "(", "1", ")", ":">>>>
    /\ in_properties
    /\ ~in_methods

\* the line matches none of the patterns the loop tests
IsUnrecognised(t) ==
    /\ ~StartsWith(t, <<"@", "i", "n", "t", "e", "r", "f", "a", "c", "e", " ">>)
    /\ ~StartsWith(t, <<"S", "u", "p", "e", "r", "c", "l", "a", "s", "s", ":", " ">>)
    /\ ~StartsWith(t, <<"M", "e", "t", "h", "o", "d", "s", " ", "(">>)
    /\ ~StartsWith(t, <<"P", "r", "o", "p", "e", "r", "t", "i", "e", "s", " ", "(">>)
    /\ t # <<"@", "e", "n", "d">>
    /\ ~StartsWith(t, <<"-", " ">>)
    /\ ~StartsWith(t, <<"@", "p", "r", "o", "p", "e", "r", "t", "y", " ">>)

\* C29: a record in the result is never changed again, and a line that
\* matches no pattern leaves the flags, the open record and the result
\* unchanged.
C29_SavedRecordsFrozen ==
    [][/\ Len(classes') >= Len(classes)
       /\ \A i \in 1..Len(classes) : classes'[i] = classes[i]
       /\ (ReadsLine /\ IsUnrecognised(LineRead)) =>
            UNCHANGED <<classes, current_class, in_methods, in_properties>>]_vars

\* C29 witness: after a record was saved, a superclass line and a methods
\* header have been read, and the saved record has no superclass
C29_Witness ==
    /\ lines = <<<<"@", "i", "n", "t", "e", "r", "f", "a", "c", "e", " ", "F", "o", "o">>, <<"@", "i", "n", "t", "e", "r", "f", "a", "c", "e", " ", "F", "o", "o">>, <<"S", "u", "p", "e", "r", "c", "l", "a", "s", "s", ":", " ", "B", "a", "r">>, <<"M", "e", "t", "h", "o", "d", "s", " ", "(", "1", ")", ":">>>>
    /\ classes = <<[name |-> <<"F", "o", "o">>, superclass |-> [kind |-> "None"], methods |-> <<>>]>>
    /\ current_class.superclass = [kind |-> "Some", value |-> <<"B", "a", "r">>]

----------------------------------------------------------------------------
(* Stripping and disjointness of the symbol views, checked under SpecSym.  *)

\* the symbol is a function by its name with one leading underscore removed
FunctionByOneStrip(raw) ==
    LET name == StripOne(raw)
    IN  /\ ~Excluded(raw)
        /\ ~BeginsKUpper(name)
        /\ (BeginsWithOneOf(name, {<<"N", "S">>, <<"C", "F">>, <<"C", "G">>}) \/ BeginsLowercase(name))

\* the name has a lowercase letter
HasLowercase(name) ==
    \E i \in 1..Len(name) :
        name[i] \in AsciiLower \/ (i < Len(name) /\ SubSeq(name, i, i + 1) = EAcute)

\* the symbol is a constant by its name with one leading underscore removed
ConstantByOneStrip(raw) ==
    LET name == StripOne(raw)
    IN  /\ ~Excluded(raw)
        /\ ~(BeginsWithOneOf(name, {<<"N", "S">>, <<"C", "F">>, <<"C", "G">>}) /\ HasLowercase(name))
        /\ BeginsKUpper(name)

\* C24: both views compare against the name with exactly one leading
\* underscore removed, so "__foo" is compared as "_foo".
C24_StripsOneUnderscore ==
    /\ c_functions # None => c_functions.value = ViewOf(FunctionByOneStrip)
    /\ constants # None => constants.value = ViewOf(ConstantByOneStrip)

\* the names of a view, as a set
NamesOf(view) == {view.value[i] : i \in 1..Len(view.value)}

\* C30: the function view and the constant view are disjoint: every name of
\* the constant view is 'k' followed by an uppercase letter and no name of
\* the function view is, and no symbol occurrence is selected by both.
C30_ViewsDisjoint ==
    /\ c_functions # None => \A n \in NamesOf(c_functions) : ~BeginsKUpper(n)
    /\ constants # None => \A n \in NamesOf(constants) : BeginsKUpper(n)
    /\ (c_functions # None /\ constants # None) =>
          /\ NamesOf(c_functions) \cap NamesOf(constants) = {}
          /\ Len(c_functions.value) + Len(constants.value) <= Len(self_symbols)

\* C30 witness: both views have been computed for a list with a function and
\* a constant, and each holds one name
C30_Witness ==
    /\ self_symbols = <<<<"_", "k", "T", "e", "s", "t", "C", "o", "n", "s", "t", "a", "n", "t">>, <<"_", "m", "a", "l", "l", "o", "c">>>>
    /\ c_functions = [kind |-> "Some", value |-> <<<<"m", "a", "l", "l", "o", "c">>>>]
    /\ constants = [kind |-> "Some", value |-> <<<<"k", "T", "e", "s", "t", "C", "o", "n", "s", "t", "a", "n", "t">>>>]

----------------------------------------------------------------------------
(* Identifiers of one class unit, checked under SpecGen.                   *)

\* blocks i and j of output belong to the unit of one class
SameUnit(i, j) == \A x \in (i + 1)..j : output[x].kind # "class_open"

\* C25: within one class unit no two wrappers have the same identifier and
\* no wrapper has the identifier of the class accessor.
C25_DistinctIdentifiers ==
    /\ \A i \in 1..Len(output) : \A j \in (i + 1)..Len(output) :
          (output[i].kind = "wrapper" /\ output[j].kind = "wrapper" /\ SameUnit(i, j))
          => output[i].method_name # output[j].method_name
    /\ \A i \in 1..Len(output) :
          output[i].kind = "wrapper" => output[i].method_name # <<"c", "l", "a", "s", "s">>

\* C26: no wrapper with an empty identifier is emitted.
C26_NoEmptyIdentifier ==
    \A i \in 1..Len(output) :
        output[i].kind = "wrapper" => output[i].method_name # <<>>

\* the method has a signature of at least two argument types
IsWellFormed(method) ==
    LET sig == parse_method_encoding(method.type_encoding)
    IN  sig.kind = "Some" /\ Len(sig.arg_types) >= 2

\* C27: the identifier of a wrapper is the one its method gets when the
\* skipped methods are removed from the method sequence: its sanitized name,
\* with _N when N earlier well-formed methods have the same sanitized name.
C27_SkippedMethodsLeaveNoTrace ==
    [][(/\ gen_pc = "methods"
        /\ Len(output') = Len(output) + 1
        /\ output'[Len(output')].kind = "wrapper")
       => LET ms == gen_classes[class_idx].methods
              base == sanitize_selector(ms[method_idx].name)
              n == Cardinality({i \in 1..(method_idx - 1) :
                                  /\ sanitize_selector(ms[i].name) = base
                                  /\ IsWellFormed(ms[i])})
          IN  output'[Len(output')].method_name =
                  (IF n = 0 THEN base ELSE base \o <<"_">> \o Decimal(n))]_vars

====
